---- MODULE Spec2Model ----
(***************************************************************************)
(* Model of the atomic-bundler bundle-submission pipeline:                 *)
(*   - submit_bundle (crates/middleware/src/api/handlers.rs), one handler  *)
(*     task per request, one action per await point of the handler;        *)
(*   - the killswitch of AppState (crates/middleware/src/app.rs);          *)
(*   - PaymentCalculator (crates/payment/src/calculator.rs);               *)
(*   - PaymentPolicyEnforcer (crates/payment/src/policies.rs);             *)
(*   - PaymentTransactionForger (crates/payment/src/forger.rs).            *)
(*                                                                         *)
(* Amounts of the handler are in gwei (1 gwei = 10^9 wei) so that they fit *)
(* the model checker's integers: 0.0002 ETH = 200000, 1 ETH = 10^9.        *)
(* Option<T> is a sequence: <<>> is None and <<v>> is Some(v).             *)
(* Hex text is a sequence of one-character strings.                        *)
(***************************************************************************)
EXTENDS Integers, Sequences, FiniteSets, TLC

VARIABLES
    config,          \* AppState.config: the operator configuration snapshot
    env,             \* process environment: PAYMENT_SIGNER_PRIVATE_KEY, ETH_RPC_URL
    chain,           \* the Ethereum node behind ETH_RPC_URL: latest block, signer account
    today,           \* the UTC date of Utc::now(), as a day number
    killswitch,      \* AppState.killswitch
    daily_spending,  \* the DailySpending record of the policy gate
    policy,          \* PaymentPolicyEnforcer.policy
    gate,            \* last call made on the PaymentPolicyEnforcer, with its result
    call,            \* last call made on the PaymentCalculator or a RelayClient, with its result
    task,            \* per request: the locals of its submit_bundle task
    response,        \* per request: the HTTP response returned, status 0 while running
    sent,            \* per request: the eth_sendBundle POSTs issued so far, in order
    effects          \* per request: what the handler has done (history)

vars == <<config, env, chain, today, killswitch, daily_spending, policy, gate, call,
          task, response, sent, effects>>

\* Number of POST /bundles requests of a run; each is served by its own task.
MaxRequests == 2

\* U256::MAX at the scale of the policy-gate specification.
MaxU256 == 3

Tasks == 1..MaxRequests

-----------------------------------------------------------------------------
(* Program constants *)

\* U256::MAX at the scale of the handler (the largest integer the model computes with).
U256_MAX == 2147483647
\* let gas_limit: u64 = 21_000
GAS_LIMIT == 21000
\* U256::from(200000000000000u64) wei, returned by calculate_flat
FLAT_AMOUNT == 200000
\* base_fee_per_gas.unwrap_or(20_000_000_000u64)
FALLBACK_BASE_FEE == 20
\* chain_id.unwrap_or(1)
DEFAULT_CHAIN_ID == 1
\* Ok(g) => g + 21_000u64, Err => 21_000u64
TX2_GAS == 21000

-----------------------------------------------------------------------------
(* Hex text and bytes *)

LowerHexDigits ==
    <<"0", "1", "2", "3", "4", "5", "6", "7", "8", "9", "a", "b", "c", "d", "e", "f">>

UpperHexDigits ==
    <<"0", "1", "2", "3", "4", "5", "6", "7", "8", "9", "A", "B", "C", "D", "E", "F">>

IsHexDigit(c) ==
    \E k \in 1..16 : c = LowerHexDigits[k] \/ c = UpperHexDigits[k]

HexValue(c) ==
    (CHOOSE k \in 1..16 : c = LowerHexDigits[k] \/ c = UpperHexDigits[k]) - 1

\* str::trim_start_matches("0x") on hex text that carries at most one prefix
StripPrefix(text) ==
    IF Len(text) >= 2 /\ text[1] = "0" /\ text[2] = "x"
    THEN SubSeq(text, 3, Len(text))
    ELSE text

HasPrefix(text) == Len(text) >= 2 /\ text[1] = "0" /\ text[2] = "x"

\* hex text is decodable: an optional 0x, then an even number of hex digits
IsHexText(text) ==
    LET raw == StripPrefix(text) IN
    /\ Len(raw) % 2 = 0
    /\ \A k \in 1..Len(raw) : IsHexDigit(raw[k])

\* hex::decode: two digits per byte, either case, optional 0x
hex_decode(text) ==
    LET raw == StripPrefix(text) IN
    [k \in 1..(Len(raw) \div 2) |->
        16 * HexValue(raw[2 * k - 1]) + HexValue(raw[2 * k])]

\* hex::encode: two lower-case digits per byte, no prefix
hex_encode(bytes) ==
    [k \in 1..(2 * Len(bytes)) |->
        IF k % 2 = 1
        THEN LowerHexDigits[(bytes[(k + 1) \div 2] \div 16) + 1]
        ELSE LowerHexDigits[(bytes[k \div 2] % 16) + 1]]

\* variant: hex::encode of the bytes, without the prefix
tx1_hex_of_unprefixed(bytes) == hex_encode(bytes)

\* format!("{}", request.tx1): Display of Bytes is 0x followed by lower-case hex
tx1_hex_of(bytes) == <<"0", "x">> \o hex_encode(bytes)

\* Address::ZERO, one byte at the model's scale (twenty in the program)
ADDRESS_ZERO == <<0>>

\* Address::from_str: Some(bytes) for hex text of the address length, else None
address_from_str(text) ==
    IF IsHexText(text) /\ Len(hex_decode(text)) = Len(ADDRESS_ZERO)
    THEN <<hex_decode(text)>>
    ELSE <<>>

\* is_valid_address: 0x, then as many hex digits as the address length needs
is_valid_address(text) ==
    /\ HasPrefix(text)
    /\ Len(text) = 2 + 2 * Len(ADDRESS_ZERO)
    /\ \A k \in 3..Len(text) : IsHexDigit(text[k])

-----------------------------------------------------------------------------
(* U256 arithmetic; max is U256::MAX at the scale of the caller *)

\* a.checked_add(b).unwrap_or(default)
checked_add_or(a, b, max, default) == IF a + b <= max THEN a + b ELSE default

\* a.checked_mul(b).unwrap_or(default)
checked_mul_or(a, b, max, default) == IF a * b <= max THEN a * b ELSE default

\* a.saturating_add(b)
saturating_add(a, b, max) == checked_add_or(a, b, max, max)

\* a.checked_add(b): Some(a + b), or None when the sum does not fit
checked_add(a, b, max) == IF a <= max - b THEN <<a + b>> ELSE <<>>

\* a.checked_mul(b): Some(a * b), or None when the product does not fit
checked_mul(a, b, max) == IF a = 0 \/ b <= max \div a THEN <<a * b>> ELSE <<>>

\* a.checked_div(b): Some(a / b), or None for a zero divisor
checked_div(a, b) == IF b = 0 THEN <<>> ELSE <<a \div b>>

-----------------------------------------------------------------------------
(* PaymentCalculator *)

\* calculate_flat: the literal amount; params.k2 is not read
calculate_flat(params) == FLAT_AMOUNT

\* k1 is written in units of 1/K1_SCALE; 1e18 in the program
K1_SCALE == 1000

\* u64::MAX at the model's scale: the product of two u64 fits a U256
U64_MAX == 46340

\* (params.k1 * 1e18) as u64: the cast saturates at 0 and at u64::MAX
k1_fixed(k1) == IF k1 < 0 THEN 0 ELSE IF k1 > U64_MAX THEN U64_MAX ELSE k1

\* variant: the final addition wraps around instead of failing
calculate_gas_based_wrapping(params) ==
    LET product == checked_mul(params.gas_used, k1_fixed(params.k1), U256_MAX)
    IN  IF product = <<>> THEN <<>>
        ELSE LET gas_component == product[1] \div K1_SCALE
             IN  IF gas_component > U256_MAX - params.k2
                 THEN <<gas_component - (U256_MAX - params.k2) - 1>>
                 ELSE <<gas_component + params.k2>>

\* calculate_gas_based: gas_used * k1 + k2, None for CalculationOverflow
calculate_gas_based(params) ==
    LET product == checked_mul(params.gas_used, k1_fixed(params.k1), U256_MAX)
        gas_component == IF product = <<>> THEN <<>>
                         ELSE checked_div(product[1], K1_SCALE)
    IN  IF gas_component = <<>> THEN <<>>
        ELSE checked_add(gas_component[1], params.k2, U256_MAX)

\* variant: gas_used * effective_gas_price saturates instead of failing
calculate_basefee_based_saturating(params) ==
    LET effective_gas_price ==
            checked_add(params.base_fee_per_gas, params.max_priority_fee_per_gas, U256_MAX)
        exact_cost == IF effective_gas_price = <<>> THEN <<>>
                      ELSE checked_mul(params.gas_used, effective_gas_price[1], U256_MAX)
        gas_cost == IF effective_gas_price = <<>> THEN <<>>
                    ELSE IF exact_cost = <<>> THEN <<U256_MAX>> ELSE exact_cost
        product == IF gas_cost = <<>> THEN <<>>
                   ELSE checked_mul(gas_cost[1], k1_fixed(params.k1), U256_MAX)
        gas_component == IF product = <<>> THEN <<>>
                         ELSE checked_div(product[1], K1_SCALE)
    IN  IF gas_component = <<>> THEN <<>>
        ELSE checked_add(gas_component[1], params.k2, U256_MAX)

\* calculate_basefee_based: gas_used * (base_fee + tip) * k1 + k2, None for
\* CalculationOverflow
calculate_basefee_based(params) ==
    LET effective_gas_price ==
            checked_add(params.base_fee_per_gas, params.max_priority_fee_per_gas, U256_MAX)
        gas_cost == IF effective_gas_price = <<>> THEN <<>>
                    ELSE checked_mul(params.gas_used, effective_gas_price[1], U256_MAX)
        product == IF gas_cost = <<>> THEN <<>>
                   ELSE checked_mul(gas_cost[1], k1_fixed(params.k1), U256_MAX)
        gas_component == IF product = <<>> THEN <<>>
                         ELSE checked_div(product[1], K1_SCALE)
    IN  IF gas_component = <<>> THEN <<>>
        ELSE checked_add(gas_component[1], params.k2, U256_MAX)

\* the amount of the formula, before the cap; None for an Err
formula_amount(params) ==
    CASE params.formula = "Flat" -> <<calculate_flat(params)>>
      [] params.formula = "Gas" -> calculate_gas_based(params)
      [] params.formula = "Basefee" -> calculate_basefee_based(params)

\* variant: an amount equal to the maximum counts as capped
was_capped_inclusive(amount_wei, max_amount) == amount_wei >= max_amount

\* let was_capped = amount_wei > params.max_amount
was_capped_of(amount_wei, max_amount) == amount_wei > max_amount

\* variant: the parameters are validated first
calculate_payment_validating(params) ==
    LET amount == formula_amount(params)
        amount_wei == IF amount = <<>> THEN 0 ELSE amount[1]
        was_capped == was_capped_of(amount_wei, params.max_amount)
        invalid == params.gas_used = 0 \/ params.k1 < 0 \/ params.max_amount = 0
    IN  [error |-> IF invalid THEN <<"InvalidParameters">>
                   ELSE IF amount = <<>> THEN <<"CalculationOverflow">> ELSE <<>>,
         amount_wei |-> IF invalid \/ amount = <<>> THEN 0
                        ELSE IF was_capped THEN params.max_amount ELSE amount_wei,
         formula |-> params.formula,
         gas_used |-> params.gas_used,
         base_fee_per_gas |-> <<params.base_fee_per_gas>>,
         was_capped |-> ~invalid /\ amount # <<>> /\ was_capped]

\* calculate_payment: Ok(PaymentResult), or Err(CalculationOverflow) in error
calculate_payment(params) ==
    LET amount == formula_amount(params)
        amount_wei == IF amount = <<>> THEN 0 ELSE amount[1]
        was_capped == was_capped_of(amount_wei, params.max_amount)
        final_amount == IF was_capped THEN params.max_amount ELSE amount_wei
    IN  IF amount = <<>>
        THEN [error |-> <<"CalculationOverflow">>,
              amount_wei |-> 0,
              formula |-> params.formula,
              gas_used |-> params.gas_used,
              base_fee_per_gas |-> <<params.base_fee_per_gas>>,
              was_capped |-> FALSE]
        ELSE [error |-> <<>>,
              amount_wei |-> final_amount,
              formula |-> params.formula,
              gas_used |-> params.gas_used,
              base_fee_per_gas |-> <<params.base_fee_per_gas>>,
              was_capped |-> was_capped]

\* Err(PaymentError::InvalidParameters(message))
InvalidParameters(message) == <<[kind |-> "InvalidParameters", message |-> message]>>

\* variant: a zero maximum amount is let through
validate_params_without_max(params) ==
    IF params.gas_used = 0 THEN InvalidParameters("Gas used cannot be zero")
    ELSE IF params.k1 < 0 THEN InvalidParameters("k1 coefficient cannot be negative")
    ELSE <<>>

\* validate_params: Ok(()) as <<>>, or the first failing check's error
validate_params(params) ==
    IF params.gas_used = 0 THEN InvalidParameters("Gas used cannot be zero")
    ELSE IF params.k1 < 0 THEN InvalidParameters("k1 coefficient cannot be negative")
    ELSE IF params.max_amount = 0 THEN InvalidParameters("Maximum amount cannot be zero")
    ELSE <<>>

-----------------------------------------------------------------------------
(* PaymentPolicyEnforcer *)

\* check_payment_allowed(&self, payment_result, current_daily_spending) -> Ok(bool)
check_payment_allowed(pol, amount_wei, daily, max) ==
    IF amount_wei > pol.per_bundle_cap_wei
    THEN FALSE
    ELSE LET new_daily_total ==
                 checked_add_or(daily.total_amount_wei, amount_wei, max, max)
         IN  IF new_daily_total > pol.daily_cap_wei
             THEN FALSE
             ELSE IF pol.emergency_stop_enabled
                     /\ amount_wei > pol.emergency_stop_threshold_wei
                  THEN FALSE
                  ELSE TRUE

\* update_daily_spending(&self, daily_spending, payment_amount) -> Ok(DailySpending);
\* now is Utc::now(), by its date
update_daily_spending(daily, payment_amount, max, now) ==
    [daily EXCEPT
        !.total_amount_wei = checked_add_or(@, payment_amount, max, max),
        !.bundle_count = @ + 1,
        !.updated_at = now]

\* get_or_create_daily_spending: a zeroed record dated Utc::now().date_naive()
get_or_create_daily_spending(now) ==
    [date |-> now, total_amount_wei |-> 0, bundle_count |-> 0, updated_at |-> now]

-----------------------------------------------------------------------------
(* PaymentTransactionForger *)

\* forge_flat_transfer_hex: the signed EIP-1559 envelope, by its fields
forge_flat_transfer_hex(to, amount_wei, chain_id, nonce, max_fee_per_gas, max_priority_fee_per_gas, gas_limit, signer_key) ==
    [ty |-> 2,
     chain_id |-> chain_id,
     nonce |-> nonce,
     max_fee_per_gas |-> max_fee_per_gas,
     max_priority_fee_per_gas |-> max_priority_fee_per_gas,
     gas_limit |-> gas_limit,
     to |-> to,
     value |-> amount_wei,
     input |-> <<>>,
     access_list |-> <<>>,
     signed_by |-> signer_key]

-----------------------------------------------------------------------------
(* Configurations, environments, chain states and request bodies of the runs *)

BuilderConfig(name, relay_url, payment_address, enabled) ==
    [name |-> name, relay_url |-> relay_url,
     payment_address |-> payment_address, enabled |-> enabled]

BuilderA(enabled) == BuilderConfig("bA", "https://a", <<"0", "x", "A", "1">>, enabled)
BuilderB(enabled) == BuilderConfig("bB", "https://b", <<"0", "x", "b", "2">>, enabled)
BuilderC(enabled) == BuilderConfig("bC", "https://c", <<"0", "x", "c", "3">>, enabled)
\* a payment address Address::from_str rejects
BuilderBad(enabled) == BuilderConfig("bB", "https://b", <<"0", "x", "b">>, enabled)

GenerousPayment ==
    [payment |-> [formula |-> "Basefee", k1 |-> 1000, k2 |-> 200000,
                 max_amount_wei |-> 500000],
     limits |-> [per_bundle_cap_wei |-> 2000000, daily_cap_wei |-> 500000000],
     network |-> [chain_id |-> <<5>>]]

TightPayment ==
    [payment |-> [formula |-> "Flat", k1 |-> 0, k2 |-> 100000,
                 max_amount_wei |-> 150000],
     limits |-> [per_bundle_cap_wei |-> 150000, daily_cap_wei |-> 250000],
     network |-> [chain_id |-> <<>>]]

MakeConfig(builders, p) ==
    [builders |-> builders, payment |-> p.payment, limits |-> p.limits,
     network |-> p.network]

Configs ==
    { MakeConfig(<<BuilderA(TRUE), BuilderB(FALSE), BuilderC(TRUE)>>, GenerousPayment),
      MakeConfig(<<BuilderA(FALSE), BuilderB(TRUE)>>, TightPayment),
      MakeConfig(<<BuilderA(TRUE), BuilderBad(TRUE)>>, GenerousPayment),
      MakeConfig(<<BuilderA(FALSE)>>, TightPayment) }

\* ConfigLoader::validate, the checks on builders and limits: what a
\* configuration loaded by main satisfies.  AppState is also built directly from
\* a Config (the tests of routes.rs), which the handler guards against.
LoaderAccepts(cfg) ==
    /\ \E k \in 1..Len(cfg.builders) : cfg.builders[k].enabled
    /\ \A k \in 1..Len(cfg.builders) :
           is_valid_address(cfg.builders[k].payment_address)
    /\ cfg.limits.per_bundle_cap_wei <= cfg.limits.daily_cap_wei
    /\ cfg.payment.k1 >= 0

ValidSignerKeys == {"k1"}
ValidUrls == {"http://localhost:8545", "http://node"}

Envs ==
    { [signer_key |-> <<"k1">>, rpc_url |-> <<>>],
      [signer_key |-> <<"k1">>, rpc_url |-> <<"not a url">>],
      [signer_key |-> <<"bogus">>, rpc_url |-> <<"http://node">>],
      [signer_key |-> <<>>, rpc_url |-> <<"http://node">>] }

\* latest block's base fee (gwei), signer nonce, signer balance (gwei)
ChainStates ==
    { [base_fee_per_gas |-> <<>>, nonce |-> 7, balance |-> 1000000000],
      [base_fee_per_gas |-> <<11>>, nonce |-> 8, balance |-> 486000],
      [base_fee_per_gas |-> <<20>>, nonce |-> 7, balance |-> 779999],
      [base_fee_per_gas |-> <<20>>, nonce |-> 9, balance |-> 0] }

\* JSON bodies of POST /bundles: tx1 hex text and the optional target block
\* PaymentRequest as it stands in a request body; <<>> is an absent key
DirectFlatPayment ==
    [mode |-> <<"direct">>, formula |-> <<"flat">>, maxAmountWei |-> <<"1000">>,
     expiry |-> <<"2030-01-01T00:00:00Z">>]
PermitBasefeePayment ==
    [mode |-> <<"permit">>, formula |-> <<"basefee">>, maxAmountWei |-> <<"999999">>,
     expiry |-> <<"2031-06-30T12:00:00Z">>]

\* bodies of POST /bundles: two well-formed ones, then the first without its
\* payment member and with a tx1 that is not hex
RequestBodies ==
    { [tx1 |-> <<"0", "x", "0", "2", "A", "B">>, target_block |-> <<5>>,
       payment |-> <<DirectFlatPayment>>],
      [tx1 |-> <<"1", "F">>, target_block |-> <<>>,
       payment |-> <<PermitBasefeePayment>>],
      [tx1 |-> <<"0", "x", "0", "2", "A", "B">>, target_block |-> <<5>>,
       payment |-> <<>>],
      [tx1 |-> <<"0", "x", "0", "2", "A", "G">>, target_block |-> <<5>>,
       payment |-> <<DirectFlatPayment>>] }

\* status of the Json extractor's rejection of a body that is not a BundleRequest
UNPROCESSABLE_ENTITY == 422

\* Deserialize for PaymentRequest: mode, formula, maxAmountWei and expiry are
\* required
PaymentRequest_deserializes(payment) ==
    /\ payment.mode # <<>>
    /\ payment.formula # <<>>
    /\ payment.maxAmountWei # <<>>
    /\ payment.expiry # <<>>

\* Json<BundleRequest>: tx1 is Bytes (hex text), payment is required,
\* target_block defaults to None
BundleRequest_deserializes(body) ==
    /\ IsHexText(body.tx1)
    /\ body.payment # <<>>
    /\ PaymentRequest_deserializes(body.payment[1])

\* TxEnvelope::decode accepts the bytes: a typed envelope starts with its type
DecodableTx(bytes) == Len(bytes) >= 2 /\ bytes[1] = 2

GasEstimates == {21000}

\* outcomes of estimate_gas_from_raw: whether eth_estimateGas was called, and Ok(g)
GasEstimateOutcomes(tx1_hex) ==
    IF IsHexText(tx1_hex) /\ DecodableTx(hex_decode(tx1_hex))
    THEN {[rpc |-> TRUE, gas |-> <<g>>] : g \in GasEstimates}
         \cup {[rpc |-> TRUE, gas |-> <<>>]}
    ELSE {[rpc |-> FALSE, gas |-> <<>>]}

-----------------------------------------------------------------------------
(* RelayClient: the eth_sendBundle request, the reply, the parsed result.      *)
(* A JSON object is a record of its members; a member that is <<>> or of kind  *)
(* "absent" is a key the object does not have.                                 *)

\* digits of format!("{:x}", n): lower case, no leading zeros
RECURSIVE lower_hex(_)
lower_hex(n) ==
    IF n < 16
    THEN <<LowerHexDigits[n + 1]>>
    ELSE Append(lower_hex(n \div 16), LowerHexDigits[(n % 16) + 1])

\* variant: whole bytes, two digits each
block_number_hex_padded(block_number) ==
    <<"0", "x">>
        \o (IF Len(lower_hex(block_number)) % 2 = 1 THEN <<"0">> ELSE <<>>)
        \o lower_hex(block_number)

\* format!("0x{:x}", block_number)
block_number_hex(block_number) == <<"0", "x">> \o lower_hex(block_number)

\* RelayBundleRequest::new(id, txs, block_number), as serde serializes it:
\* blockNumber is a String and always written, the Option members are skipped
RelayBundleRequest_new(id, txs, block_number) ==
    [jsonrpc |-> "2.0",
     id |-> id,
     method |-> "eth_sendBundle",
     params |-> <<[txs |-> txs,
                   blockNumber |-> <<block_number_hex(block_number)>>,
                   minTimestamp |-> <<>>,
                   maxTimestamp |-> <<>>,
                   revertingTxHashes |-> <<>>]>>]

\* JSON values of a reply body
JsonAbsent == [kind |-> "absent", str |-> "", n |-> 0]
JsonString(str) == [kind |-> "string", str |-> str, n |-> 0]
JsonNumber(n) == [kind |-> "number", str |-> "", n |-> n]

\* the result member: absent, a string, a number, or an object with bundleHash
ResultMember(value, bundleHash) ==
    [kind |-> value.kind, str |-> value.str, n |-> value.n, bundleHash |-> bundleHash]

\* the error member: absent, a string, or an object with code, message, data
ErrorMember(kind, code, message, data) ==
    [kind |-> kind, code |-> code, message |-> message, data |-> data]

JsonBody(jsonrpc, id, result, error) ==
    [json |-> TRUE, jsonrpc |-> jsonrpc, id |-> id, result |-> result, error |-> error]

\* a body that is not JSON
NotJson ==
    [json |-> FALSE, jsonrpc |-> JsonAbsent, id |-> JsonAbsent,
     result |-> ResultMember(JsonAbsent, JsonAbsent),
     error |-> ErrorMember("absent", JsonAbsent, JsonAbsent, FALSE)]

JsonRpcMembers == {JsonAbsent, JsonString("2.0")}
IdMembers == {JsonAbsent, JsonNumber(1), JsonString("1")}
ResultMembers ==
    { ResultMember(JsonAbsent, JsonAbsent),
      ResultMember(JsonString("0xabc"), JsonAbsent),
      ResultMember(JsonNumber(1), JsonAbsent),
      ResultMember([JsonAbsent EXCEPT !.kind = "object"], JsonString("0xdef")),
      ResultMember([JsonAbsent EXCEPT !.kind = "object"], JsonAbsent) }
ErrorMembers ==
    { ErrorMember("absent", JsonAbsent, JsonAbsent, FALSE),
      ErrorMember("object", JsonNumber(0 - 32000), JsonString("Bundle rejected"), FALSE),
      ErrorMember("object", JsonNumber(0 - 32000), JsonString("Bundle rejected"), TRUE),
      ErrorMember("object", JsonNumber(0 - 32000), JsonAbsent, FALSE),
      ErrorMember("string", JsonAbsent, JsonAbsent, FALSE) }

ResponseBodies ==
    { JsonBody(jsonrpc, id, result, error) :
          jsonrpc \in JsonRpcMembers, id \in IdMembers,
          result \in ResultMembers, error \in ErrorMembers }
    \cup {NotJson}

\* Result<String>: Ok(hash), or Err of a types::error::RelayError
RelayOk(hash) ==
    [ok |-> TRUE, kind |-> "Ok", relay |-> "", text |-> hash, code |-> 0, status |-> 0]
RelayErr(kind, relay, text, code, status) ==
    [ok |-> FALSE, kind |-> kind, relay |-> relay, text |-> text, code |-> code,
     status |-> status]

\* serde_json::from_str::<RelayBundleResponse>(raw_text): jsonrpc a string, id a
\* u64, and flattened either Success { result: String } or Error { error }
strict_schema(body) ==
    /\ body.json
    /\ body.jsonrpc.kind = "string"
    /\ body.id.kind = "number" /\ body.id.n >= 0
    /\ \/ body.result.kind = "string"
       \/ /\ body.error.kind = "object"
          /\ body.error.code.kind = "number"
          /\ body.error.message.kind = "string"

\* variant: only the strict schema is understood
parse_bundle_submit_response_strict(relay_name, body) ==
    IF strict_schema(body)
    THEN IF body.result.kind = "string"
         THEN RelayOk(body.result.str)
         ELSE RelayErr("BundleRejected", relay_name, body.error.message.str, 0, 0)
    ELSE RelayErr("InvalidResponse", relay_name, "invalid response", 0, 0)

\* parse_bundle_submit_response(relay_name, raw_text)
parse_bundle_submit_response(relay_name, body) ==
    IF strict_schema(body)
    THEN IF body.result.kind = "string"
         THEN RelayOk(body.result.str)
         ELSE RelayErr("BundleRejected", relay_name, body.error.message.str, 0, 0)
    ELSE IF ~body.json
    THEN RelayErr("InvalidResponse", relay_name, "invalid JSON response", 0, 0)
    ELSE IF body.result.kind = "string"
    THEN RelayOk(body.result.str)
    ELSE IF body.result.kind = "object" /\ body.result.bundleHash.kind = "string"
    THEN RelayOk(body.result.bundleHash.str)
    ELSE IF body.error.kind # "absent"
    THEN RelayErr("InvalidResponse", relay_name,
                  IF body.error.kind = "object" /\ body.error.message.kind = "string"
                  THEN body.error.message.str ELSE "unknown error",
                  IF body.error.kind = "object" /\ body.error.code.kind = "number"
                  THEN body.error.code.n ELSE 0,
                  0)
    ELSE RelayErr("InvalidResponse", relay_name, "invalid response", 0, 0)

\* what comes back from the POST: no answer in time with the outer
\* tokio::time::timeout elapsing first ("timeout") or with the http client's
\* own timeout of the same duration ending send() first ("client_timeout"), a
\* transport error, a body that cannot be read, or a status with a body
RelayReply(kind, status, body) == [kind |-> kind, status |-> status, body |-> body]

HttpStatuses == {200, 299, 300, 503}

RelayReplies ==
    { RelayReply("timeout", 0, NotJson),
      RelayReply("client_timeout", 0, NotJson),
      RelayReply("send_error", 0, NotJson),
      RelayReply("body_error", 200, NotJson) }
    \cup { RelayReply("http", status, body) :
               status \in HttpStatuses, body \in ResponseBodies }

\* response.status().is_success()
is_success(status) == status >= 200 /\ status <= 299

\* variant: the body is parsed before the status is looked at
submit_bundle_result_body_first(relay_name, reply) ==
    IF reply.kind = "timeout"
    THEN RelayErr("ConnectionTimeout", relay_name, "", 0, 0)
    ELSE IF reply.kind \in {"send_error", "client_timeout"}
    THEN RelayErr("HttpError", relay_name, "", 0, 0)
    ELSE IF reply.kind = "body_error"
    THEN RelayErr("InvalidResponse", relay_name, "error reading response body", 0, 0)
    ELSE IF parse_bundle_submit_response(relay_name, reply.body).ok
    THEN parse_bundle_submit_response(relay_name, reply.body)
    ELSE IF ~is_success(reply.status)
    THEN RelayErr("HttpError", relay_name, "", 0, reply.status)
    ELSE parse_bundle_submit_response(relay_name, reply.body)

\* RelayClient::submit_bundle, from the reply on
submit_bundle_result(relay_name, reply) ==
    IF reply.kind = "timeout"
    THEN RelayErr("ConnectionTimeout", relay_name, "", 0, 0)
    ELSE IF reply.kind \in {"send_error", "client_timeout"}
    THEN RelayErr("HttpError", relay_name, "", 0, 0)
    ELSE IF ~is_success(reply.status)
    THEN RelayErr("HttpError", relay_name, "", 0, reply.status)
    ELSE IF reply.kind = "body_error"
    THEN RelayErr("InvalidResponse", relay_name, "error reading response body", 0, 0)
    ELSE parse_bundle_submit_response(relay_name, reply.body)

\* replies of the relays of a run
AcceptedReply ==
    RelayReply("http", 200,
        JsonBody(JsonString("2.0"), JsonNumber(1),
                 ResultMember(JsonString("0xabc"), JsonAbsent),
                 ErrorMember("absent", JsonAbsent, JsonAbsent, FALSE)))
RejectedReply ==
    RelayReply("http", 200,
        JsonBody(JsonString("2.0"), JsonNumber(1),
                 ResultMember(JsonAbsent, JsonAbsent),
                 ErrorMember("object", JsonNumber(0 - 32000),
                             JsonString("Bundle rejected"), FALSE)))

\* what a relay may answer to a POST: it accepts, or it fails in the way this
\* relay fails for this kind of bundle (the first relay by transport, the
\* others by their answer)
RelayOutcomes(relay_name, target_block) ==
    {AcceptedReply}
    \cup (IF relay_name = "bA"
          THEN IF target_block = <<>>
               THEN {RelayReply("timeout", 0, NotJson)}
               ELSE {RelayReply("http", 503, NotJson)}
          ELSE IF target_block = <<>>
               THEN {RejectedReply}
               ELSE {RelayReply("http", 200, NotJson)})

-----------------------------------------------------------------------------
(* submit_bundle *)

IdleTask ==
    [pc |-> "idle", tx1 |-> <<>>, target_block |-> <<>>, enabled_builders |-> <<>>,
     base_fee_per_gas |-> 0, tx1_gas_estimate |-> <<>>, estimated_gas_used |-> 0,
     flat_amount_wei |-> 0, max_fee_per_gas |-> 0,
     base_nonce |-> 0, bundles |-> <<>>, submission_results |-> <<>>, i |-> 0]

\* the locals are dropped when the handler returns
DoneTask == [IdleTask EXCEPT !.pc = "done"]

NoResponse ==
    [status |-> 0, error |-> "", balanceWei |-> <<>>, requiredWei |-> <<>>,
     submissions |-> <<>>]

ErrorResponse(status, error) ==
    [NoResponse EXCEPT !.status = status, !.error = error]

NoEffects ==
    [killswitch_at_start |-> <<>>, rpc_reads |-> 0, forged |-> 0,
     nonce |-> <<>>, balance |-> <<>>, amount |-> <<>>, max_fee |-> <<>>,
     request |-> <<>>, results |-> <<>>, formula |-> <<>>, disclosed |-> {}]

\* variant: the flag is not consulted
is_killswitch_active_never == FALSE

\* state.is_killswitch_active().await
is_killswitch_active == killswitch

\* variant: the enabled flag is not consulted
EnabledBuilders_unfiltered(cfg) == cfg.builders

\* state.config.builders.iter().filter(|b| b.enabled).collect()
EnabledBuilders(cfg) == SelectSeq(cfg.builders, LAMBDA b : b.enabled)

\* std::env::var("ETH_RPC_URL").unwrap_or_else(|_| "http://localhost:8545")
rpc_url_of(e) == IF e.rpc_url = <<>> THEN "http://localhost:8545" ELSE e.rpc_url[1]

\* (base_fee * 3) / 2 + max_priority_fee_per_gas, with max_priority_fee_per_gas = 0;
\* base_fee comes from a u64, so the conversion to u128 cannot fail
\* variant: the fee cap rounded up
max_fee_per_gas_rounded_up(base_fee_per_gas) == ((base_fee_per_gas * 3) + 1) \div 2

\* Lines 122-127: ((base_fee_per_gas * 3) / 2) + max_priority_fee_per_gas, with
\* max_priority_fee_per_gas = 0
max_fee_per_gas_of(base_fee_per_gas) == ((base_fee_per_gas * 3) \div 2) + 0

\* U256::from(gas_limit).checked_mul(max_fee).unwrap_or(MAX).saturating_add(amount)
required_wei_of(max_fee_per_gas, flat_amount_wei) ==
    saturating_add(checked_mul_or(GAS_LIMIT, max_fee_per_gas, U256_MAX, U256_MAX),
                   flat_amount_wei, U256_MAX)

\* variant: a balance equal to the requirement is refused
balance_sufficient_strict(signer_balance, required_wei) == signer_balance > required_wei

\* the balance check: if signer_balance < required_wei { return 400 }
balance_sufficient(signer_balance, required_wei) == ~(signer_balance < required_wei)

\* a value computed from the signer key that is written to a log line or to
\* an error body, with the line that writes it
Disclosure(sink, line, value) == [sink |-> sink, line |-> line, value |-> value]

\* PrivateKeySigner::from_str(&signer_key)?.address(), as 0x{:x} text: the
\* address of the key, from which the key cannot be read
signer_address_hex(signer_key) == IF signer_key = "k1" THEN "0xf1" ELSE "0xf2"

\* variant: the warning carries the key itself
signer_log_field_key(signer_key) == signer_key

\* Line 162: signer = %format!("0x{:x}", signer_addr)
signer_log_field(signer_key) == signer_address_hex(signer_key)

\* forger.rs 69-71, handlers.rs 218: "failed to forge tx2 for {}: {}" with the
\* forger's "signing failed: {e}", e being the signer's error text
forge_error_text(signer_key) == "signing failed: signature error"

Return(t, resp) ==
    /\ task' = [task EXCEPT ![t] = DoneTask]
    /\ response' = [response EXCEPT ![t] = resp]

\* Lines 26-70: the killswitch gate, the enabled builders, the signer key and the
\* RPC provider; runs to the first RPC await.
SubmitBundleStart(t) ==
    /\ task[t].pc = "idle"
    /\ IF t = 1 THEN TRUE ELSE task[t - 1].pc # "idle"
    /\ \E body \in RequestBodies :
        LET enabled_builders == EnabledBuilders(config) IN
        /\ effects' = [effects EXCEPT
               ![t].killswitch_at_start =
                   IF BundleRequest_deserializes(body) THEN <<killswitch>> ELSE <<>>,
               ![t].request = <<body>>]
        /\ IF ~BundleRequest_deserializes(body)
           THEN Return(t, ErrorResponse(UNPROCESSABLE_ENTITY, "JsonRejection"))
           ELSE IF is_killswitch_active
           THEN Return(t, ErrorResponse(503, "KillswitchActive"))
           ELSE IF enabled_builders = <<>>
           THEN Return(t, ErrorResponse(400, "NoEnabledBuilders"))
           ELSE IF env.signer_key = <<>>
           THEN Return(t, ErrorResponse(400, "SignerKeyMissing"))
           ELSE IF rpc_url_of(env) \notin ValidUrls
           THEN Return(t, ErrorResponse(500, "InvalidRpcUrl"))
           ELSE /\ task' = [task EXCEPT ![t] =
                       [IdleTask EXCEPT !.pc = "get_block",
                                        !.tx1 = hex_decode(body.tx1),
                                        !.target_block = body.target_block,
                                        !.enabled_builders = enabled_builders]]
                /\ UNCHANGED response
    /\ UNCHANGED <<config, env, chain, today, killswitch, daily_spending, policy, call, gate, sent>>

\* Lines 72-87: provider.get_block_by_number(Latest)
GetLatestBlock(t) ==
    /\ task[t].pc = "get_block"
    /\ effects' = [effects EXCEPT ![t].rpc_reads = @ + 1]
    /\ \E outcome \in {"ok", "error", "none"} :
        CASE outcome = "error" -> Return(t, ErrorResponse(500, "LatestBlockFailed"))
          [] outcome = "none" -> Return(t, ErrorResponse(500, "LatestBlockNotFound"))
          [] outcome = "ok" ->
                /\ task' = [task EXCEPT
                       ![t].pc = "estimate_gas",
                       ![t].base_fee_per_gas =
                           IF chain.base_fee_per_gas = <<>>
                           THEN FALLBACK_BASE_FEE
                           ELSE chain.base_fee_per_gas[1]]
                /\ UNCHANGED response
    /\ UNCHANGED <<config, env, chain, today, killswitch, daily_spending, policy, call, gate, sent>>

\* Lines 102-111: the PaymentParams submit_bundle builds; the formula is Flat
\* whatever the configuration says, and validate_params is not called on them
payment_params_of(payment, estimated_gas_used, base_fee_per_gas) ==
    [gas_used |-> estimated_gas_used,
     base_fee_per_gas |-> base_fee_per_gas,
     max_priority_fee_per_gas |-> 0,
     formula |-> "Flat",
     k1 |-> payment.k1,
     k2 |-> payment.k2,
     max_amount |-> payment.max_amount_wei]

\* Lines 89-136: gas estimate of tx1, the payment, the fee of tx2, the signer
EstimateGas(t) ==
    /\ task[t].pc = "estimate_gas"
    /\ \E est \in GasEstimateOutcomes(tx1_hex_of(task[t].tx1)) :
        LET estimated_gas_used ==
                IF est.gas = <<>> THEN TX2_GAS ELSE est.gas[1] + TX2_GAS
            payment_params ==
                payment_params_of(config.payment, estimated_gas_used,
                                  task[t].base_fee_per_gas)
            payment_result == calculate_payment(payment_params)
        IN
        /\ effects' = [effects EXCEPT
               ![t].rpc_reads = IF est.rpc THEN @ + 1 ELSE @,
               ![t].amount = <<payment_result.amount_wei>>,
               ![t].formula = <<payment_result.formula>>,
               ![t].max_fee = <<max_fee_per_gas_of(task[t].base_fee_per_gas)>>]
        /\ IF payment_result.error # <<>>
           THEN Return(t, ErrorResponse(500, "Payment calculation failed"))
           ELSE IF env.signer_key[1] \notin ValidSignerKeys
           THEN Return(t, ErrorResponse(500, "InvalidSignerKey"))
           ELSE /\ task' = [task EXCEPT
                       ![t].pc = "get_nonce",
                       ![t].tx1_gas_estimate = est.gas,
                       ![t].estimated_gas_used = payment_result.gas_used,
                       ![t].flat_amount_wei = payment_result.amount_wei,
                       ![t].max_fee_per_gas =
                           max_fee_per_gas_of(task[t].base_fee_per_gas)]
                /\ UNCHANGED response
    /\ UNCHANGED <<config, env, chain, today, killswitch, daily_spending, policy, call, gate, sent>>

\* Lines 138-145: provider.get_transaction_count(signer_addr)
GetNonce(t) ==
    /\ task[t].pc = "get_nonce"
    /\ \E outcome \in {"ok", "error"} :
        IF outcome = "error"
        THEN /\ Return(t, ErrorResponse(500, "NonceFailed"))
             /\ effects' = [effects EXCEPT ![t].rpc_reads = @ + 1]
        ELSE \* estimated_gas_used is last read at line 104
             /\ task' = [task EXCEPT ![t].pc = "get_balance",
                                     ![t].tx1_gas_estimate = <<>>,
                                     ![t].estimated_gas_used = 0,
                                     ![t].base_nonce = chain.nonce]
             /\ effects' = [effects EXCEPT ![t].rpc_reads = @ + 1,
                                           ![t].nonce = <<chain.nonce>>]
             /\ UNCHANGED response
    /\ UNCHANGED <<config, env, chain, today, killswitch, daily_spending, policy, call, gate, sent>>

\* Lines 147-178: provider.get_balance(signer_addr) and the balance check
GetBalance(t) ==
    /\ task[t].pc = "get_balance"
    /\ \E outcome \in {"ok", "error"} :
        IF outcome = "error"
        THEN /\ Return(t, ErrorResponse(500, "BalanceFailed"))
             /\ effects' = [effects EXCEPT ![t].rpc_reads = @ + 1]
        ELSE LET signer_balance == chain.balance
                 required_wei == required_wei_of(task[t].max_fee_per_gas,
                                                 task[t].flat_amount_wei)
             IN
             /\ effects' = [effects EXCEPT
                    ![t].rpc_reads = @ + 1,
                    ![t].balance = <<signer_balance>>,
                    ![t].disclosed =
                        IF balance_sufficient(signer_balance, required_wei) THEN @
                        ELSE @ \cup {Disclosure("log", 162,
                                                signer_log_field(env.signer_key[1]))}]
             /\ IF balance_sufficient(signer_balance, required_wei)
                THEN /\ task' = [task EXCEPT ![t].pc = "forge"]
                     /\ UNCHANGED response
                ELSE Return(t, [ErrorResponse(400, "InsufficientBalance") EXCEPT
                                   !.balanceWei = <<signer_balance>>,
                                   !.requiredWei = <<required_wei>>])
    /\ UNCHANGED <<config, env, chain, today, killswitch, daily_spending, policy, call, gate, sent>>

\* chain_id.unwrap_or(1)
chain_id_of(cfg) ==
    IF cfg.network.chain_id = <<>> THEN DEFAULT_CHAIN_ID ELSE cfg.network.chain_id[1]

\* the recipient of the payment transaction forged for a builder
tx2_recipient(builder, enabled_builders) == address_from_str(builder.payment_address)

\* variant: one nonce per forged transaction
tx2_nonce_incrementing(base_nonce, k) == base_nonce + (k - 1)

\* the nonce of the payment transaction forged for the k-th enabled builder
tx2_nonce(base_nonce, k) == base_nonce

\* vec![tx1_hex.clone(), tx2_hex.clone()]
bundle_txs(tx1_hex, tx2_hex) == <<tx1_hex, tx2_hex>>

\* Lines 196-233, the loop body from the k-th enabled builder on: parse the
\* payment address, forge tx2, push (name, [tx1, tx2]).  sign_fail is the index
\* of the builder whose signing fails, 0 when none does.
RECURSIVE forge_loop(_, _, _, _)
forge_loop(l, k, bundles, sign_fail) ==
    IF k > Len(l.enabled_builders)
    THEN [error |-> <<>>, bundles |-> bundles]
    ELSE LET builder == l.enabled_builders[k]
             builder_addr == tx2_recipient(builder, l.enabled_builders)
         IN  IF builder_addr = <<>>
             THEN [error |-> <<ErrorResponse(400, "InvalidPaymentAddress")>>,
                   bundles |-> bundles]
             ELSE IF sign_fail = k
             THEN [error |-> <<ErrorResponse(500, "ForgeFailed")>>,
                   bundles |-> bundles]
             ELSE forge_loop(l, k + 1,
                      Append(bundles,
                          [name |-> builder.name,
                           txs |-> bundle_txs(
                               tx1_hex_of(l.tx1),
                               forge_flat_transfer_hex(
                                   builder_addr[1], l.flat_amount_wei,
                                   chain_id_of(config), tx2_nonce(l.base_nonce, k),
                                   l.max_fee_per_gas, 0, GAS_LIMIT,
                                   env.signer_key[1]))]),
                      sign_fail)

\* Lines 180-233: one bundle per enabled builder
ForgeBundles(t) ==
    /\ task[t].pc = "forge"
    /\ \E sign_fail \in 0..Len(task[t].enabled_builders) :
        LET forged == forge_loop(task[t], 1, <<>>, sign_fail) IN
        /\ effects' = [effects EXCEPT
               ![t].forged = Len(forged.bundles),
               ![t].disclosed =
                   IF forged.error # <<>> /\ forged.error[1].status = 500
                   THEN @ \cup {Disclosure("body", 218,
                                           forge_error_text(env.signer_key[1]))}
                   ELSE @]
        /\ IF forged.error # <<>>
           THEN Return(t, forged.error[1])
           ELSE /\ task' = [task EXCEPT ![t].pc = "submit",
                                        ![t].bundles = forged.bundles,
                                        ![t].i = 1]
                /\ UNCHANGED response
    /\ UNCHANGED <<config, env, chain, today, killswitch, daily_spending, policy, call, gate, sent>>

\* the enabled builder whose relay gets the i-th bundle: enabled_builders[i]
relay_of_bundle(enabled_builders, i) == enabled_builders[i]

\* variant: a checksum-strict parse, which rejects lower-case digits
relay_payment_address_checksummed(builder_config) ==
    IF \E k \in 3..Len(builder_config.payment_address) :
           builder_config.payment_address[k] \in {"a", "b", "c", "d", "e", "f"}
    THEN <<>>
    ELSE address_from_str(builder_config.payment_address)

\* Address::from_str(builder_config.payment_address.as_str()) of the submit loop
relay_payment_address(builder_config) ==
    address_from_str(builder_config.payment_address)

\* variant: the killswitch is read again before each dispatch
SubmitToRelay_gated(t) ==
    /\ task[t].pc = "submit"
    /\ LET l == task[t]
           builder_config == relay_of_bundle(l.enabled_builders, l.i)
       IN  IF is_killswitch_active
           THEN /\ Return(t, ErrorResponse(503, "KillswitchActive"))
                /\ UNCHANGED sent
           ELSE /\ sent' = [sent EXCEPT ![t] = Append(@,
                       [relay_url |-> builder_config.relay_url,
                        builder |-> l.bundles[l.i].name,
                        txs |-> l.bundles[l.i].txs,
                        target_block |-> l.target_block])]
                /\ task' = [task EXCEPT ![t].pc = "await_relay"]
                /\ UNCHANGED response
    /\ UNCHANGED <<config, env, chain, today, killswitch, daily_spending, policy, call, gate, effects>>

\* Lines 237-264: the i-th bundle is posted to its builder's relay
SubmitToRelay(t) ==
    /\ task[t].pc = "submit"
    /\ LET l == task[t]
           builder_config == relay_of_bundle(l.enabled_builders, l.i)
           payment_address == relay_payment_address(builder_config)
       IN  IF payment_address = <<>>
           THEN /\ Return(t, ErrorResponse(400, "InvalidPaymentAddress"))
                /\ UNCHANGED sent
           ELSE /\ sent' = [sent EXCEPT ![t] = Append(@,
                       [relay_url |-> builder_config.relay_url,
                        builder |-> l.bundles[l.i].name,
                        txs |-> l.bundles[l.i].txs,
                        target_block |-> l.target_block])]
                /\ task' = [task EXCEPT ![t].pc = "await_relay"]
                /\ UNCHANGED response
    /\ UNCHANGED <<config, env, chain, today, killswitch, daily_spending, policy, call, gate, effects>>

\* variant: every outcome is listed as submitted
submission_entry_always_submitted(builder_name, result) ==
    [builder |-> builder_name, status |-> "submitted",
     response |-> <<result.text>>, error |-> <<>>]

\* Lines 264-291: Ok(response) => "submitted" with the response,
\* Err(e) => "failed" with e.to_string()
submission_entry(builder_name, result) ==
    IF result.ok
    THEN [builder |-> builder_name, status |-> "submitted",
          response |-> <<result.text>>, error |-> <<>>]
    ELSE [builder |-> builder_name, status |-> "failed",
          response |-> <<>>, error |-> <<result>>]

\* Lines 264-307: the relay's outcome is recorded; then the next bundle, or 200
RelayResponds(t) ==
    /\ task[t].pc = "await_relay"
    /\ \E reply \in RelayOutcomes(relay_of_bundle(task[t].enabled_builders, task[t].i).name,
                                    sent[t][task[t].i].target_block) :
        LET l == task[t]
            result == submit_bundle_result(relay_of_bundle(l.enabled_builders, l.i).name,
                                           reply)
            entry == submission_entry(l.bundles[l.i].name, result)
            submission_results == Append(l.submission_results, entry)
        IN  /\ effects' = [effects EXCEPT ![t].results = Append(@, result)]
            /\ IF l.i < Len(l.bundles)
               THEN /\ task' = [task EXCEPT ![t].pc = "submit",
                                            ![t].submission_results = submission_results,
                                            ![t].i = l.i + 1]
                    /\ UNCHANGED response
               ELSE Return(t, [NoResponse EXCEPT !.status = 200,
                                                 !.submissions = submission_results])
    /\ UNCHANGED <<config, env, chain, today, killswitch, daily_spending, policy, call, gate,
                   sent>>

\* toggle_killswitch: activate_killswitch / deactivate_killswitch
ToggleKillswitch ==
    /\ \E activate \in BOOLEAN : killswitch' = activate
    /\ UNCHANGED <<config, env, chain, today, daily_spending, policy, call, gate,
                   task, response, sent, effects>>

\* Application::shutdown, lines 107-112: the killswitch is set; the API server's
\* shutdown is a log line, so requests in flight go on
Shutdown ==
    /\ killswitch' = TRUE
    /\ UNCHANGED <<config, env, chain, today, daily_spending, policy, call, gate,
                   task, response, sent, effects>>

\* PaymentPolicy::default(), in gwei
DefaultPolicy ==
    [per_bundle_cap_wei |-> 2000000, daily_cap_wei |-> 500000000,
     emergency_stop_enabled |-> TRUE, emergency_stop_threshold_wei |-> 100000000]

NoCall == [op |-> "none"]

NoGateCall ==
    [op |-> "none", amount_wei |-> 0, daily_before |-> <<>>, allowed |-> <<>>, now |-> 0]

\* Application::new: killswitch false, nothing in flight
Init ==
    /\ config \in Configs
    /\ env \in Envs
    /\ chain \in ChainStates
    /\ today = 0
    /\ killswitch = FALSE
    /\ daily_spending = get_or_create_daily_spending(0)
    /\ policy = DefaultPolicy
    /\ gate = NoGateCall
    /\ call = NoCall
    /\ task = [t \in Tasks |-> IdleTask]
    /\ response = [t \in Tasks |-> NoResponse]
    /\ sent = [t \in Tasks |-> <<>>]
    /\ effects = [t \in Tasks |-> NoEffects]

Next ==
    \/ \E t \in Tasks : SubmitBundleStart(t)
    \/ \E t \in Tasks : GetLatestBlock(t)
    \/ \E t \in Tasks : EstimateGas(t)
    \/ \E t \in Tasks : GetNonce(t)
    \/ \E t \in Tasks : GetBalance(t)
    \/ \E t \in Tasks : ForgeBundles(t)
    \/ \E t \in Tasks : SubmitToRelay(t)
    \/ \E t \in Tasks : RelayResponds(t)
    \/ ToggleKillswitch
    \/ Shutdown

Spec == Init /\ [][Next]_vars

-----------------------------------------------------------------------------
(* ApiServer: the handler behind the router's TimeoutLayer *)

\* StatusCode::REQUEST_TIMEOUT, the answer of TimeoutLayer when
\* server.request_timeout_seconds have passed
REQUEST_TIMEOUT == 408

\* the awaits of submit_bundle, where its future can be dropped
AwaitPoints == {"get_block", "estimate_gas", "get_nonce", "get_balance", "await_relay"}

\* ApiServer::new, lines 53-55: TimeoutLayer::new(request_timeout_seconds) ends a
\* request that is still running when the time is up; the handler's future is
\* dropped at the await it is suspended on, what it has posted stays posted
RequestTimeout(t) ==
    /\ task[t].pc \in AwaitPoints
    /\ Return(t, ErrorResponse(REQUEST_TIMEOUT, ""))
    /\ UNCHANGED <<config, env, chain, today, killswitch, daily_spending, policy, call,
                   gate, sent, effects>>

\* a server with two enabled relays, a signer key and a node
InitServer ==
    /\ config = MakeConfig(<<BuilderA(TRUE), BuilderB(FALSE), BuilderC(TRUE)>>,
                           GenerousPayment)
    /\ env = [signer_key |-> <<"k1">>, rpc_url |-> <<>>]
    /\ chain \in ChainStates
    /\ today = 0
    /\ killswitch = FALSE
    /\ daily_spending = get_or_create_daily_spending(0)
    /\ policy = DefaultPolicy
    /\ gate = NoGateCall
    /\ call = NoCall
    /\ task = [t \in Tasks |-> IdleTask]
    /\ response = [t \in Tasks |-> NoResponse]
    /\ sent = [t \in Tasks |-> <<>>]
    /\ effects = [t \in Tasks |-> NoEffects]

NextServer ==
    \/ \E t \in Tasks : SubmitBundleStart(t)
    \/ \E t \in Tasks : GetLatestBlock(t)
    \/ \E t \in Tasks : EstimateGas(t)
    \/ \E t \in Tasks : GetNonce(t)
    \/ \E t \in Tasks : GetBalance(t)
    \/ \E t \in Tasks : ForgeBundles(t)
    \/ \E t \in Tasks : SubmitToRelay(t)
    \/ \E t \in Tasks : RelayResponds(t)
    \/ \E t \in Tasks : RequestTimeout(t)

SpecServer == InitServer /\ [][NextServer]_vars

-----------------------------------------------------------------------------
(* PaymentPolicyEnforcer on its own: any policy, any amount, the daily record  *)
(* carried from one update_daily_spending to the next.                         *)

\* DailySpending.bundle_count of a run stays below this
MaxCommits == 3

\* Number of midnights of a run.
MaxDays == 1

Amounts == 0..MaxU256

Policies ==
    [per_bundle_cap_wei : Amounts, daily_cap_wei : Amounts,
     emergency_stop_enabled : BOOLEAN, emergency_stop_threshold_wei : Amounts]

\* PaymentPolicyEnforcer::new(policy), get_or_create_daily_spending()
InitPolicy ==
    /\ config = MakeConfig(<<BuilderA(TRUE)>>, GenerousPayment)
    /\ env = [signer_key |-> <<"k1">>, rpc_url |-> <<>>]
    /\ chain = [base_fee_per_gas |-> <<>>, nonce |-> 7, balance |-> 1000000000]
    /\ today = 0
    /\ killswitch = FALSE
    /\ daily_spending = get_or_create_daily_spending(0)
    /\ policy \in Policies
    /\ gate = NoGateCall
    /\ call = NoCall
    /\ task = [t \in Tasks |-> IdleTask]
    /\ response = [t \in Tasks |-> NoResponse]
    /\ sent = [t \in Tasks |-> <<>>]
    /\ effects = [t \in Tasks |-> NoEffects]

\* enforcer.check_payment_allowed(&payment_result, &daily_spending).await
CheckPaymentAllowed ==
    /\ \E amount_wei \in Amounts :
        gate' = [op |-> "check", amount_wei |-> amount_wei,
                 daily_before |-> <<daily_spending>>,
                 allowed |-> <<check_payment_allowed(policy, amount_wei,
                                                     daily_spending, MaxU256)>>,
                 now |-> today]
    /\ UNCHANGED <<config, env, chain, today, killswitch, daily_spending, policy, call,
                   task, response, sent, effects>>

\* daily_spending = enforcer.update_daily_spending(daily_spending, amount).await
UpdateDailySpending ==
    /\ daily_spending.bundle_count < MaxCommits
    /\ \E payment_amount \in Amounts :
        /\ daily_spending' =
               update_daily_spending(daily_spending, payment_amount, MaxU256, today)
        /\ gate' = [op |-> "update", amount_wei |-> payment_amount,
                    daily_before |-> <<daily_spending>>, allowed |-> <<>>,
                    now |-> today]
    /\ UNCHANGED <<config, env, chain, today, killswitch, policy, call,
                   task, response, sent, effects>>

\* midnight UTC passes: Utc::now().date_naive() is the next day
AdvanceDay ==
    /\ today < MaxDays
    /\ today' = today + 1
    /\ UNCHANGED <<config, env, chain, killswitch, daily_spending, policy, gate, call,
                   task, response, sent, effects>>

NextPolicy ==
    \/ CheckPaymentAllowed
    \/ UpdateDailySpending
    \/ AdvanceDay

SpecPolicy == InitPolicy /\ [][NextPolicy]_vars

-----------------------------------------------------------------------------
(* The calculator on its own: calculate_payment on any parameters.             *)

Formulas == {"Flat", "Gas", "Basefee"}
GasUsedValues == {0, 21000, 42000}
BaseFees == {0, 20, 50000, U256_MAX}
PriorityFees == {0, 1}
K1Values == {0 - 1000, 0, 1000, 1500, 50000}
K2Values == {0, 100000, 2000000, U256_MAX}
MaxAmounts == {0, 1000, 150000, 200000, 1000000, U256_MAX}

\* PaymentParams
PaymentParamsSet ==
    [gas_used : GasUsedValues, base_fee_per_gas : BaseFees,
     max_priority_fee_per_gas : PriorityFees, formula : Formulas,
     k1 : K1Values, k2 : K2Values, max_amount : MaxAmounts]

\* PaymentCalculator::new(), and the parameters of the call to come
InitCalculator ==
    /\ config = MakeConfig(<<BuilderA(TRUE)>>, GenerousPayment)
    /\ env = [signer_key |-> <<"k1">>, rpc_url |-> <<>>]
    /\ chain = [base_fee_per_gas |-> <<>>, nonce |-> 7, balance |-> 1000000000]
    /\ today = 0
    /\ killswitch = FALSE
    /\ daily_spending = get_or_create_daily_spending(0)
    /\ policy = DefaultPolicy
    /\ gate = NoGateCall
    /\ call \in {[op |-> "pending", params |-> params] : params \in PaymentParamsSet}
    /\ task = [t \in Tasks |-> IdleTask]
    /\ response = [t \in Tasks |-> NoResponse]
    /\ sent = [t \in Tasks |-> <<>>]
    /\ effects = [t \in Tasks |-> NoEffects]

\* calculator.calculate_payment(&params)
CalculatePayment ==
    /\ call.op = "pending"
    /\ call' = [op |-> "calculate_payment", params |-> call.params,
                result |-> calculate_payment(call.params)]
    /\ UNCHANGED <<config, env, chain, today, killswitch, daily_spending, policy, gate,
                   task, response, sent, effects>>

\* calculator.validate_params(&params)
ValidateParams ==
    /\ call.op = "pending"
    /\ call' = [op |-> "validate_params", params |-> call.params,
                result |-> validate_params(call.params)]
    /\ UNCHANGED <<config, env, chain, today, killswitch, daily_spending, policy, gate,
                   task, response, sent, effects>>

\* submit_bundle, lines 101-120, on a payment section and an estimate taken from
\* the parameters at hand: the call of calculate_payment and what comes of it,
\* the 500 of line 114 or the flat_amount_wei of line 120
SubmitBundlePayment ==
    /\ call.op = "pending"
    /\ LET payment == [k1 |-> call.params.k1, k2 |-> call.params.k2,
                       max_amount_wei |-> call.params.max_amount]
           payment_params == payment_params_of(payment, call.params.gas_used,
                                               call.params.base_fee_per_gas)
           payment_result == calculate_payment(payment_params)
       IN  call' = [op |-> "submit_bundle", params |-> call.params,
                    payment_params |-> payment_params,
                    result |-> payment_result,
                    returned |-> IF payment_result.error # <<>> THEN <<500>> ELSE <<>>,
                    flat_amount_wei |-> IF payment_result.error # <<>> THEN <<>>
                                        ELSE <<payment_result.amount_wei>>]
    /\ UNCHANGED <<config, env, chain, today, killswitch, daily_spending, policy, gate,
                   task, response, sent, effects>>

NextCalculator == CalculatePayment \/ ValidateParams \/ SubmitBundlePayment

SpecCalculator == InitCalculator /\ [][NextCalculator]_vars

-----------------------------------------------------------------------------
(* The relay client on its own: one submit_bundle call on any bundle and any   *)
(* reply of the relay.                                                         *)

MaxBlock == 17

\* target blocks: the small ones and the ends of the digit lengths
BlockNumbers == (0..MaxBlock) \cup {255, 256, 4095, 4096, U64_MAX}

\* the handler's requested_target_block: None or Some(n)
TargetBlocks == {<<>>} \cup {<<n>> : n \in BlockNumbers}

RelayNames == {"bA", "bC"}

\* txs of a bundle: tx1 and the payment transaction, as hex text
BundleTransactions == {<<"0x02ab", "0x02f8">>}

\* generate_request_id(): eight bytes of a fresh UUID
RequestIds == {11, 12}

\* RelayClient::new(relay), and the call to come with the relay's reply
InitRelay ==
    /\ config = MakeConfig(<<BuilderA(TRUE)>>, GenerousPayment)
    /\ env = [signer_key |-> <<"k1">>, rpc_url |-> <<>>]
    /\ chain = [base_fee_per_gas |-> <<>>, nonce |-> 7, balance |-> 1000000000]
    /\ today = 0
    /\ killswitch = FALSE
    /\ daily_spending = get_or_create_daily_spending(0)
    /\ policy = DefaultPolicy
    /\ gate = NoGateCall
    /\ call \in {[op |-> "pending", relay |-> relay, transactions |-> transactions,
                  target_block |-> target_block, reply |-> reply] :
                     relay \in RelayNames, transactions \in BundleTransactions,
                     target_block \in TargetBlocks, reply \in RelayReplies}
    /\ task = [t \in Tasks |-> IdleTask]
    /\ response = [t \in Tasks |-> NoResponse]
    /\ sent = [t \in Tasks |-> <<>>]
    /\ effects = [t \in Tasks |-> NoEffects]

\* relay_client.submit_bundle(txs, chosen_target_opt).await: the client takes a
\* u64 and the body always carries it, so for None some block number is sent
SubmitBundle ==
    /\ call.op = "pending"
    /\ \E request_id \in RequestIds :
       \E block_number \in (IF call.target_block = <<>>
                            THEN BlockNumbers ELSE {call.target_block[1]}) :
           call' = [op |-> "submit_bundle",
                    relay |-> call.relay,
                    transactions |-> call.transactions,
                    target_block |-> call.target_block,
                    reply |-> call.reply,
                    request |-> RelayBundleRequest_new(request_id, call.transactions,
                                                       block_number),
                    result |-> submit_bundle_result(call.relay, call.reply)]
    /\ UNCHANGED <<config, env, chain, today, killswitch, daily_spending, policy, gate,
                   task, response, sent, effects>>

NextRelay == SubmitBundle

SpecRelay == InitRelay /\ [][NextRelay]_vars

-----------------------------------------------------------------------------
(* The configuration loader on its own: validate on any configuration.         *)

\* str::starts_with
starts_with(text, prefix) ==
    Len(text) >= Len(prefix) /\ SubSeq(text, 1, Len(prefix)) = prefix

HTTP_SCHEME == <<"h", "t", "t", "p", ":", "/", "/">>
HTTPS_SCHEME == <<"h", "t", "t", "p", "s", ":", "/", "/">>

\* variant: any relay URL that is not empty passes
relay_url_format_any(relay_url) == relay_url # <<>>

\* relay_url.starts_with("http://") || relay_url.starts_with("https://")
relay_url_format(relay_url) ==
    starts_with(relay_url, HTTP_SCHEME) \/ starts_with(relay_url, HTTPS_SCHEME)

\* ConfigLoader::validate: Ok as <<>>, or the field of the first failed check
validate(cfg) ==
    LET builder_error(builder) ==
            IF builder.name = "" THEN <<"builders.name">>
            ELSE IF builder.relay_url = <<>> THEN <<"builders.relay_url">>
            ELSE IF ~relay_url_format(builder.relay_url) THEN <<"builders.relay_url">>
            ELSE IF builder.payment_address = <<>> THEN <<"builders.payment_address">>
            ELSE IF ~is_valid_address(builder.payment_address)
            THEN <<"builders.payment_address">>
            ELSE IF builder.timeout_seconds = 0 THEN <<"builders.timeout_seconds">>
            ELSE IF builder.timeout_seconds > 300 THEN <<"builders.timeout_seconds">>
            ELSE <<>>
        failing == {k \in 1..Len(cfg.builders) : builder_error(cfg.builders[k]) # <<>>}
    IN  IF cfg.network.network = "" THEN <<"network.network">>
        ELSE IF \A k \in 1..Len(cfg.builders) : ~cfg.builders[k].enabled
        THEN <<"builders">>
        ELSE IF failing # {}
        THEN builder_error(cfg.builders[CHOOSE k \in failing : \A j \in failing : k <= j])
        ELSE IF cfg.payment.k1 < 0 THEN <<"payment.k1">>
        ELSE IF cfg.limits.per_bundle_cap_wei = <<>> \/ cfg.limits.daily_cap_wei = <<>>
        THEN <<"limits">>
        ELSE IF cfg.limits.per_bundle_cap_wei[1] > cfg.limits.daily_cap_wei[1]
        THEN <<"limits">>
        ELSE IF ~cfg.other_sections_valid THEN <<"server">>
        ELSE <<>>

\* a builder entry of the file
LoaderBuilder(name, relay_url, payment_address, enabled, timeout_seconds) ==
    [name |-> name, relay_url |-> relay_url, payment_address |-> payment_address,
     enabled |-> enabled, timeout_seconds |-> timeout_seconds]

GoodRelayUrl == HTTPS_SCHEME \o <<"a">>
GoodAddress == <<"0", "x", "A", "1">>

\* default_timeout_seconds()
DEFAULT_TIMEOUT_SECONDS == 30

\* builder entries: a valid one, and the valid one with one member changed
LoaderBuilders ==
    { LoaderBuilder("bA", relay_url, GoodAddress, enabled, DEFAULT_TIMEOUT_SECONDS) :
          relay_url \in {GoodRelayUrl, HTTP_SCHEME \o <<"b">>, <<>>,
                         <<"f", "t", "p", ":", "/", "/", "c">>,
                         <<"h", "t", "t", "p", "s", ":", "/">>,
                         <<" ">> \o GoodRelayUrl},
          enabled \in BOOLEAN }
    \cup { LoaderBuilder("bA", GoodRelayUrl, payment_address, enabled,
                         DEFAULT_TIMEOUT_SECONDS) :
               payment_address \in {<<>>, <<"0", "x", "b">>, <<"0", "x", "Z", "1">>,
                                    <<"A", "1", "b", "2">>, <<"0", "x", "a", "1", "b", "2">>,
                                    <<"0", "X", "a", "1">>},
               enabled \in BOOLEAN }
    \cup { LoaderBuilder("bA", GoodRelayUrl, GoodAddress, enabled, timeout_seconds) :
               timeout_seconds \in {0, 1, 300, 301}, enabled \in BOOLEAN }
    \cup { LoaderBuilder("", GoodRelayUrl, GoodAddress, enabled,
                         DEFAULT_TIMEOUT_SECONDS) : enabled \in BOOLEAN }

\* the builders list of a file: one or two entries
LoaderBuilderLists ==
    {<<builder>> : builder \in LoaderBuilders}
    \cup {<<first, second>> : first \in LoaderBuilders, second \in LoaderBuilders}

\* caps of a section, per_bundle_cap_wei then daily_cap_wei
CapPairs == {<<1, 2>>, <<2, 2>>, <<2, 1>>}

\* Config as parsed from the file; a limits cap of <<>> does not parse as U256
LoaderConfigs ==
    { [network |-> [network |-> network],
       builders |-> builders,
       payment |-> [k1 |-> k1, per_bundle_cap_wei |-> payment_caps[1],
                    daily_cap_wei |-> payment_caps[2]],
       limits |-> limits,
       other_sections_valid |-> other_sections_valid] :
          network \in {"mainnet"},
          builders \in LoaderBuilderLists,
          k1 \in {0 - 1000, 1000},
          payment_caps \in CapPairs,
          limits \in { [per_bundle_cap_wei |-> <<caps[1]>>,
                        daily_cap_wei |-> <<caps[2]>>] : caps \in CapPairs }
                     \cup {[per_bundle_cap_wei |-> <<>>, daily_cap_wei |-> <<2>>]},
          other_sections_valid \in BOOLEAN }
    \cup { [network |-> [network |-> ""],
            builders |-> <<LoaderBuilder("bA", GoodRelayUrl, GoodAddress, TRUE,
                                         DEFAULT_TIMEOUT_SECONDS)>>,
            payment |-> [k1 |-> 1000, per_bundle_cap_wei |-> 1, daily_cap_wei |-> 2],
            limits |-> [per_bundle_cap_wei |-> <<1>>, daily_cap_wei |-> <<2>>],
            other_sections_valid |-> TRUE] }

\* ConfigLoader::load: the file has been parsed into a Config
InitLoader ==
    /\ config = MakeConfig(<<BuilderA(TRUE)>>, GenerousPayment)
    /\ env = [signer_key |-> <<"k1">>, rpc_url |-> <<>>]
    /\ chain = [base_fee_per_gas |-> <<>>, nonce |-> 7, balance |-> 1000000000]
    /\ today = 0
    /\ killswitch = FALSE
    /\ daily_spending = get_or_create_daily_spending(0)
    /\ policy = DefaultPolicy
    /\ gate = NoGateCall
    /\ call \in {[op |-> "pending", config |-> cfg] : cfg \in LoaderConfigs}
    /\ task = [t \in Tasks |-> IdleTask]
    /\ response = [t \in Tasks |-> NoResponse]
    /\ sent = [t \in Tasks |-> <<>>]
    /\ effects = [t \in Tasks |-> NoEffects]

\* Self::validate(&config)?
Validate ==
    /\ call.op = "pending"
    /\ call' = [op |-> "validate", config |-> call.config,
                result |-> validate(call.config)]
    /\ UNCHANGED <<config, env, chain, today, killswitch, daily_spending, policy, gate,
                   task, response, sent, effects>>

NextLoader == Validate

SpecLoader == InitLoader /\ [][NextLoader]_vars

-----------------------------------------------------------------------------
(* The two validators of the config crate on the same configuration *)

WS_SCHEME == <<"w", "s", ":", "/", "/">>
WSS_SCHEME == <<"w", "s", "s", ":", "/", "/">>

VALID_LOG_LEVELS == {"trace", "debug", "info", "warn", "error"}
VALID_LOG_FORMATS == {"json", "pretty"}

\* the checks of ConfigLoader::validate on the server, database, logging,
\* metrics and security sections: what other_sections_valid stands for
loader_sections_valid(server, database, logging, metrics, security) ==
    /\ server.port # 0
    /\ server.max_body_size # 0
    /\ database.url # ""
    /\ database.max_connections # 0
    /\ logging.level \in VALID_LOG_LEVELS
    /\ logging.format \in VALID_LOG_FORMATS
    /\ metrics.port # 0
    /\ server.port # metrics.port
    /\ security.rate_limit_per_minute # 0
    /\ security.rate_limit_burst # 0

\* a Config with every section the validators read; amounts in gwei
FileConfig(network, targets, payment, limits, builders, server, database, logging, metrics, security) ==
    [network |-> network, targets |-> targets, payment |-> payment, limits |-> limits,
     builders |-> builders, server |-> server, database |-> database,
     logging |-> logging, metrics |-> metrics, security |-> security,
     other_sections_valid |->
         loader_sections_valid(server, database, logging, metrics, security)]

\* PaymentConfig::default(): max_amount_wei 0.0005 ETH, per_bundle_cap_wei 0.002 ETH
PaymentConfig_default ==
    [k1 |-> 1000, max_amount_wei |-> 500000, per_bundle_cap_wei |-> 2000000,
     daily_cap_wei |-> 500000000]

DefaultNetwork == [network |-> "mainnet", rpc_url |-> <<>>]
DefaultTargets == [blocks_ahead |-> 3, resubmit_max |-> 3]
DefaultLimits == [per_bundle_cap_wei |-> <<2000000>>, daily_cap_wei |-> <<500000000>>]
DefaultBuilder == LoaderBuilder("flashbots", GoodRelayUrl, GoodAddress, TRUE, DEFAULT_TIMEOUT_SECONDS)
DefaultServer == [host |-> "0.0.0.0", port |-> 8080, request_timeout_seconds |-> 30, max_body_size |-> 1048576]
DefaultDatabase == [url |-> "sqlite:data/atomic_bundler.db", max_connections |-> 10, connection_timeout_seconds |-> 30]
DefaultLogging == [level |-> "info", format |-> "json"]
DefaultMetrics == [port |-> 9090, namespace |-> "atomic_bundler", collection_interval_seconds |-> 30]
DefaultSecurity == [rate_limit_per_minute |-> 100, rate_limit_burst |-> 20]

\* Config::default()
Config_default ==
    FileConfig(DefaultNetwork, DefaultTargets, PaymentConfig_default, DefaultLimits,
               <<DefaultBuilder>>, DefaultServer, DefaultDatabase, DefaultLogging,
               DefaultMetrics, DefaultSecurity)

\* report.add_error(field, message) under its condition: the errors it adds
add_error_if(condition, field) == IF condition THEN <<field>> ELSE <<>>

\* ConfigValidator::validate_network, the errors
validate_network(cfg) ==
    add_error_if(cfg.network.network = "", "network.network")
    \o add_error_if(/\ cfg.network.rpc_url # <<>>
                    /\ ~starts_with(cfg.network.rpc_url[1], HTTP_SCHEME)
                    /\ ~starts_with(cfg.network.rpc_url[1], HTTPS_SCHEME)
                    /\ ~starts_with(cfg.network.rpc_url[1], WS_SCHEME)
                    /\ ~starts_with(cfg.network.rpc_url[1], WSS_SCHEME),
                    "network.rpc_url")

\* ConfigValidator::validate_payment, the errors
validate_payment(cfg) ==
    add_error_if(cfg.payment.k1 < 0, "payment.k1")
    \o add_error_if(cfg.payment.max_amount_wei = 0, "payment.max_amount_wei")
    \o add_error_if(cfg.payment.per_bundle_cap_wei > cfg.payment.max_amount_wei, "payment")

\* ConfigValidator::validate_builder, the errors
validate_builder(builder) ==
    add_error_if(builder.name = "", "builders.name")
    \o add_error_if(builder.relay_url = <<>>, "builders.relay_url")
    \o add_error_if(~is_valid_address(builder.payment_address), "builders.payment_address")
    \o add_error_if(builder.timeout_seconds = 0, "builders.timeout_seconds")

\* the loop of validate_builders from entry k on: names.insert fails for a name
\* an earlier entry has
RECURSIVE validate_builders_from(_, _)
validate_builders_from(builders, k) ==
    IF k > Len(builders) THEN <<>>
    ELSE add_error_if(\E j \in 1..(k - 1) : builders[j].name = builders[k].name,
                      "builders")
         \o validate_builder(builders[k])
         \o validate_builders_from(builders, k + 1)

\* ConfigValidator::validate_builders, the errors
validate_builders(cfg) ==
    IF cfg.builders = <<>> THEN <<"builders">>
    ELSE add_error_if(\A k \in 1..Len(cfg.builders) : ~cfg.builders[k].enabled,
                      "builders")
         \o validate_builders_from(cfg.builders, 1)

\* ConfigValidator::validate_limits, the errors
validate_limits(cfg) ==
    IF cfg.limits.per_bundle_cap_wei = <<>> \/ cfg.limits.daily_cap_wei = <<>>
    THEN <<"limits">>
    ELSE add_error_if(cfg.limits.per_bundle_cap_wei[1] > cfg.limits.daily_cap_wei[1],
                      "limits")

\* ConfigValidator::validate_server, the errors
validate_server(cfg) ==
    add_error_if(cfg.server.port = 0, "server.port")
    \o add_error_if(cfg.server.request_timeout_seconds = 0,
                    "server.request_timeout_seconds")
    \o add_error_if(cfg.server.max_body_size = 0, "server.max_body_size")
    \o add_error_if(cfg.server.host = "", "server.host")

\* ConfigValidator::validate_database, the errors
validate_database(cfg) ==
    add_error_if(cfg.database.url = "", "database.url")
    \o add_error_if(cfg.database.max_connections = 0, "database.max_connections")
    \o add_error_if(cfg.database.connection_timeout_seconds = 0,
                    "database.connection_timeout_seconds")

\* ConfigValidator::validate_logging, the errors
validate_logging(cfg) ==
    add_error_if(cfg.logging.level \notin VALID_LOG_LEVELS, "logging.level")
    \o add_error_if(cfg.logging.format \notin VALID_LOG_FORMATS, "logging.format")

\* ConfigValidator::validate_metrics, the errors
validate_metrics(cfg) ==
    add_error_if(cfg.metrics.port = 0, "metrics.port")
    \o add_error_if(cfg.metrics.namespace = "", "metrics.namespace")
    \o add_error_if(cfg.metrics.collection_interval_seconds = 0,
                    "metrics.collection_interval_seconds")

\* ConfigValidator::validate_security, the errors
validate_security(cfg) ==
    add_error_if(cfg.security.rate_limit_per_minute = 0, "security.rate_limit_per_minute")
    \o add_error_if(cfg.security.rate_limit_burst = 0, "security.rate_limit_burst")

\* ConfigValidator::validate_cross_dependencies, the errors
validate_cross_dependencies(cfg) ==
    add_error_if(cfg.server.port = cfg.metrics.port, "ports")
    \o add_error_if(cfg.targets.blocks_ahead = 0, "targets.blocks_ahead")
    \o add_error_if(cfg.targets.resubmit_max = 0, "targets.resubmit_max")

\* ConfigValidator::validate: report.errors, the fields in the order they are added
ConfigValidator_validate(cfg) ==
    validate_network(cfg) \o validate_payment(cfg) \o validate_builders(cfg)
    \o validate_limits(cfg) \o validate_server(cfg) \o validate_database(cfg)
    \o validate_logging(cfg) \o validate_metrics(cfg) \o validate_security(cfg)
    \o validate_cross_dependencies(cfg)

\* builders lists: the default entry, entries that differ from it in one member
FileBuilderLists ==
    { <<DefaultBuilder>>,
      <<DefaultBuilder, DefaultBuilder>>,
      <<DefaultBuilder, LoaderBuilder("titan", GoodRelayUrl, GoodAddress, FALSE, DEFAULT_TIMEOUT_SECONDS)>>,
      <<LoaderBuilder("flashbots", HTTP_SCHEME \o <<"b">>, GoodAddress, TRUE, DEFAULT_TIMEOUT_SECONDS)>>,
      <<LoaderBuilder("flashbots", GoodRelayUrl, GoodAddress, TRUE, 301)>>,
      <<LoaderBuilder("flashbots", GoodRelayUrl, GoodAddress, FALSE, DEFAULT_TIMEOUT_SECONDS)>>,
      <<>> }

\* payment sections: the default, and caps on either side of max_amount_wei
FilePayments ==
    { PaymentConfig_default,
      [PaymentConfig_default EXCEPT !.max_amount_wei = 2000000],
      [PaymentConfig_default EXCEPT !.max_amount_wei = 3000000],
      [PaymentConfig_default EXCEPT !.max_amount_wei = 0, !.per_bundle_cap_wei = 0],
      [PaymentConfig_default EXCEPT !.k1 = 0 - 1000, !.max_amount_wei = 3000000] }

FileNetworks ==
    { DefaultNetwork,
      [DefaultNetwork EXCEPT !.rpc_url = <<HTTP_SCHEME \o <<"n">>>>],
      [DefaultNetwork EXCEPT !.rpc_url = <<WSS_SCHEME \o <<"n">>>>],
      [DefaultNetwork EXCEPT !.rpc_url = <<<<"n">>>>],
      [DefaultNetwork EXCEPT !.network = ""] }

FileLimits ==
    { DefaultLimits,
      [DefaultLimits EXCEPT !.daily_cap_wei = <<1000000>>],
      [DefaultLimits EXCEPT !.per_bundle_cap_wei = <<>>] }

\* the remaining sections: the defaults, and the defaults with one member changed
FileSections ==
    LET sections(targets, server, database, logging, metrics, security) ==
            [targets |-> targets, server |-> server, database |-> database,
             logging |-> logging, metrics |-> metrics, security |-> security]
        defaults == sections(DefaultTargets, DefaultServer, DefaultDatabase,
                             DefaultLogging, DefaultMetrics, DefaultSecurity)
    IN  { defaults,
          [defaults EXCEPT !.targets.blocks_ahead = 0],
          [defaults EXCEPT !.targets.resubmit_max = 0],
          [defaults EXCEPT !.server.port = 0],
          [defaults EXCEPT !.server.port = 9090],
          [defaults EXCEPT !.server.request_timeout_seconds = 0],
          [defaults EXCEPT !.server.max_body_size = 0],
          [defaults EXCEPT !.server.host = ""],
          [defaults EXCEPT !.database.url = ""],
          [defaults EXCEPT !.database.max_connections = 0],
          [defaults EXCEPT !.database.connection_timeout_seconds = 0],
          [defaults EXCEPT !.logging.level = "verbose"],
          [defaults EXCEPT !.logging.format = "text"],
          [defaults EXCEPT !.metrics.port = 0],
          [defaults EXCEPT !.metrics.namespace = ""],
          [defaults EXCEPT !.metrics.collection_interval_seconds = 0],
          [defaults EXCEPT !.security.rate_limit_per_minute = 0],
          [defaults EXCEPT !.security.rate_limit_burst = 0] }

FileConfigs ==
    { FileConfig(network, rest.targets, payment, limits, builders, rest.server,
                 rest.database, rest.logging, rest.metrics, rest.security) :
          network \in FileNetworks, payment \in FilePayments, limits \in FileLimits,
          builders \in FileBuilderLists, rest \in FileSections }

\* a Config is at hand: loaded from a file, or Config::default()
InitValidators ==
    /\ config = MakeConfig(<<BuilderA(TRUE)>>, GenerousPayment)
    /\ env = [signer_key |-> <<"k1">>, rpc_url |-> <<>>]
    /\ chain = [base_fee_per_gas |-> <<>>, nonce |-> 7, balance |-> 1000000000]
    /\ today = 0
    /\ killswitch = FALSE
    /\ daily_spending = get_or_create_daily_spending(0)
    /\ policy = DefaultPolicy
    /\ gate = NoGateCall
    /\ call \in {[op |-> "pending", config |-> cfg] : cfg \in FileConfigs}
    /\ task = [t \in Tasks |-> IdleTask]
    /\ response = [t \in Tasks |-> NoResponse]
    /\ sent = [t \in Tasks |-> <<>>]
    /\ effects = [t \in Tasks |-> NoEffects]

\* ConfigLoader::validate(&config) and ConfigValidator::validate(&config)
ValidateBoth ==
    /\ call.op = "pending"
    /\ call' = [op |-> "validate_both", config |-> call.config,
                result |-> validate(call.config),
                errors |-> ConfigValidator_validate(call.config)]
    /\ UNCHANGED <<config, env, chain, today, killswitch, daily_spending, policy, gate,
                   task, response, sent, effects>>

NextValidators == ValidateBoth

SpecValidators == InitValidators /\ [][NextValidators]_vars

-----------------------------------------------------------------------------
(* RelayHealthMonitor: one record per relay, updated by name *)

MaxUpdates == 3

\* RelayHealthCheck::new(name, status); now is Utc::now()
RelayHealthCheck_new(name, status, now) ==
    [name |-> name, status |-> status, response_time_ms |-> <<>>, last_check |-> now,
     error_message |-> <<>>, consecutive_failures |-> 0]

\* RelayHealthMonitor::new(relays), by the names of the relays
RelayHealthMonitor_new(names, now) ==
    [k \in 1..Len(names) |-> RelayHealthCheck_new(names[k], "Unknown", now)]

\* RelayHealthCheck::mark_healthy(response_time_ms)
mark_healthy(check, response_time_ms, now) ==
    [check EXCEPT !.status = "Healthy", !.response_time_ms = <<response_time_ms>>,
                  !.last_check = now, !.error_message = <<>>,
                  !.consecutive_failures = 0]

\* RelayHealthCheck::mark_unhealthy(error_message)
mark_unhealthy(check, error_message, now) ==
    [check EXCEPT !.status = "Unhealthy", !.response_time_ms = <<>>, !.last_check = now,
                  !.error_message = <<error_message>>,
                  !.consecutive_failures = check.consecutive_failures + 1]

\* Duration::as_millis() as u64, of a duration in microseconds
as_millis(duration) == duration \div 1000

\* self.relays.iter_mut().find(|r| r.name == relay_name): the position of the
\* first record of that name, 0 for None
find_relay(relays, relay_name) ==
    LET named == {k \in 1..Len(relays) : relays[k].name = relay_name}
    IN  IF named = {} THEN 0 ELSE CHOOSE k \in named : \A j \in named : k <= j

\* variant: the status is the health argument
update_health_as_told(relays, relay_name, health, response_time, now) ==
    LET k == find_relay(relays, relay_name)
    IN  IF k = 0 THEN relays
        ELSE IF response_time # <<>>
        THEN [relays EXCEPT ![k] = [mark_healthy(relays[k], as_millis(response_time[1]), now)
                                        EXCEPT !.status = health]]
        ELSE [relays EXCEPT ![k] = [mark_unhealthy(relays[k], "No response", now)
                                        EXCEPT !.status = health]]

\* RelayHealthMonitor::update_health(relay_name, _health, response_time)
update_health(relays, relay_name, health, response_time, now) ==
    LET k == find_relay(relays, relay_name)
    IN  IF k = 0 THEN relays
        ELSE IF response_time # <<>>
        THEN [relays EXCEPT ![k] = mark_healthy(relays[k], as_millis(response_time[1]), now)]
        ELSE [relays EXCEPT ![k] = mark_unhealthy(relays[k], "No response", now)]

\* the relays a monitor is built for
MonitoredRelays == {<<"bA", "bB">>, <<"bA", "bA">>}

\* relay names, health values and response times (microseconds) of an update
UpdateNames == {"bA", "bB", "bX"}
UpdateHealths == {"Healthy", "Unhealthy"}
UpdateResponseTimes == {<<>>, <<400>>, <<1500>>}

\* RelayHealthMonitor::new(relays)
InitHealth ==
    /\ config = MakeConfig(<<BuilderA(TRUE)>>, GenerousPayment)
    /\ env = [signer_key |-> <<"k1">>, rpc_url |-> <<>>]
    /\ chain = [base_fee_per_gas |-> <<>>, nonce |-> 7, balance |-> 1000000000]
    /\ today = 0
    /\ killswitch = FALSE
    /\ daily_spending = get_or_create_daily_spending(0)
    /\ policy = DefaultPolicy
    /\ gate = NoGateCall
    /\ call \in {[op |-> "new", relays |-> RelayHealthMonitor_new(names, 0),
                  updates |-> <<>>] : names \in MonitoredRelays}
    /\ task = [t \in Tasks |-> IdleTask]
    /\ response = [t \in Tasks |-> NoResponse]
    /\ sent = [t \in Tasks |-> <<>>]
    /\ effects = [t \in Tasks |-> NoEffects]

\* monitor.update_health(relay_name, health, response_time); the clock has moved
\* on by one since the last call
UpdateHealth ==
    /\ call.op \in {"new", "update_health"}
    /\ Len(call.updates) < MaxUpdates
    /\ \E relay_name \in UpdateNames, health \in UpdateHealths,
          response_time \in UpdateResponseTimes :
           call' = [op |-> "update_health",
                    before |-> call.relays,
                    relays |-> update_health(call.relays, relay_name, health,
                                             response_time, Len(call.updates) + 1),
                    updates |-> Append(call.updates,
                                       [relay_name |-> relay_name, health |-> health,
                                        response_time |-> response_time])]
    /\ UNCHANGED <<config, env, chain, today, killswitch, daily_spending, policy, gate,
                   task, response, sent, effects>>

NextHealth == UpdateHealth

SpecHealth == InitHealth /\ [][NextHealth]_vars

-----------------------------------------------------------------------------
(* toggle_killswitch, by the body it is sent *)

JsonBool(b) == [kind |-> "bool", str |-> "", n |-> IF b THEN 1 ELSE 0]
JsonNull == [kind |-> "null", str |-> "", n |-> 0]

\* the body of POST /admin/killswitch: not JSON, a JSON value that is no
\* object, or an object with its activate member
KillswitchBody(json, object, activate) ==
    [json |-> json, object |-> object, activate |-> activate]

ActivateMembers ==
    {JsonAbsent, JsonBool(TRUE), JsonBool(FALSE), JsonNull, JsonNumber(0), JsonNumber(1),
     JsonString("false"), JsonString("true"), JsonString("")}

KillswitchBodies ==
    {KillswitchBody(FALSE, FALSE, JsonAbsent), KillswitchBody(TRUE, FALSE, JsonAbsent)}
    \cup {KillswitchBody(TRUE, TRUE, activate) : activate \in ActivateMembers}

\* payload.get("activate"): the member of an object, None for any other value
payload_get_activate(payload) ==
    IF payload.object /\ payload.activate.kind # "absent"
    THEN <<payload.activate>> ELSE <<>>

\* Value::as_bool: Some for a JSON boolean, None for everything else
as_bool(value) == IF value.kind = "bool" THEN <<value.n = 1>> ELSE <<>>

\* variant: a member that is no boolean counts as false
toggle_activate_or_false(payload) ==
    LET member == payload_get_activate(payload)
        flag == IF member = <<>> THEN <<>> ELSE as_bool(member[1])
    IN  IF flag = <<>> THEN FALSE ELSE flag[1]

\* Lines 422-425: payload.get("activate").and_then(|v| v.as_bool()).unwrap_or(true)
toggle_activate(payload) ==
    LET member == payload_get_activate(payload)
        flag == IF member = <<>> THEN <<>> ELSE as_bool(member[1])
    IN  IF flag = <<>> THEN TRUE ELSE flag[1]

\* the admin requests of a run
MaxToggles == 6

\* Application::new: the killswitch is off, no admin request yet
InitAdmin ==
    /\ config = MakeConfig(<<BuilderA(TRUE)>>, GenerousPayment)
    /\ env = [signer_key |-> <<"k1">>, rpc_url |-> <<>>]
    /\ chain = [base_fee_per_gas |-> <<>>, nonce |-> 7, balance |-> 1000000000]
    /\ today = 0
    /\ killswitch = FALSE
    /\ daily_spending = get_or_create_daily_spending(0)
    /\ policy = DefaultPolicy
    /\ gate = NoGateCall
    /\ call = [op |-> "none", seq |-> 0]
    /\ task = [t \in Tasks |-> IdleTask]
    /\ response = [t \in Tasks |-> NoResponse]
    /\ sent = [t \in Tasks |-> <<>>]
    /\ effects = [t \in Tasks |-> NoEffects]

\* POST /admin/killswitch (or /killswitch): the Json<Value> extractor rejects a
\* body that is not JSON before the handler runs; the handler sets the flag
\* and reports it, whatever the flag was
PostKillswitch ==
    /\ call.seq < MaxToggles
    /\ \E body \in KillswitchBodies :
        IF ~body.json
        THEN /\ call' = [op |-> "toggle_killswitch", seq |-> call.seq + 1,
                         body |-> body, before |-> killswitch, ran |-> FALSE,
                         status |-> 400, reported |-> ""]
             /\ UNCHANGED killswitch
        ELSE LET activate == toggle_activate(body) IN
             /\ killswitch' = activate
             /\ call' = [op |-> "toggle_killswitch", seq |-> call.seq + 1,
                         body |-> body, before |-> killswitch, ran |-> TRUE,
                         status |-> 200,
                         reported |-> IF activate THEN "activated" ELSE "deactivated"]
    /\ UNCHANGED <<config, env, chain, today, daily_spending, policy, gate,
                   task, response, sent, effects>>

NextAdmin == PostKillswitch

SpecAdmin == InitAdmin /\ [][NextAdmin]_vars

-----------------------------------------------------------------------------
(* PaymentTransactionForger, by the bytes it produces *)

\* the minimal big-endian bytes of an unsigned integer; none for zero
RECURSIVE be_bytes(_)
be_bytes(n) == IF n = 0 THEN <<>> ELSE Append(be_bytes(n \div 256), n % 256)

\* the unsigned integer of big-endian bytes
RECURSIVE from_be_bytes(_)
from_be_bytes(bytes) ==
    IF bytes = <<>> THEN 0
    ELSE 256 * from_be_bytes(SubSeq(bytes, 1, Len(bytes) - 1)) + bytes[Len(bytes)]

\* RLP of a byte string
rlp_bytes(bytes) ==
    IF Len(bytes) = 1 /\ bytes[1] < 128 THEN bytes
    ELSE IF Len(bytes) < 56 THEN <<128 + Len(bytes)>> \o bytes
    ELSE <<183 + Len(be_bytes(Len(bytes)))>> \o be_bytes(Len(bytes)) \o bytes

\* RLP of an unsigned integer
rlp_uint(n) == rlp_bytes(be_bytes(n))

\* RLP of a list, from the concatenated encodings of its items
rlp_list(payload) ==
    IF Len(payload) < 56 THEN <<192 + Len(payload)>> \o payload
    ELSE <<247 + Len(be_bytes(Len(payload)))>> \o be_bytes(Len(payload)) \o payload

\* the items of an RLP payload, each with its kind and content
RECURSIVE rlp_items(_)
rlp_items(b) ==
    IF b = <<>> THEN <<>>
    ELSE LET h == b[1]
             long == (h >= 184 /\ h < 192) \/ h >= 248
             len_of_len == IF h >= 248 THEN h - 247 ELSE IF long THEN h - 183 ELSE 0
             n == IF h < 128 THEN 1
                  ELSE IF long THEN from_be_bytes(SubSeq(b, 2, 1 + len_of_len))
                  ELSE IF h < 184 THEN h - 128
                  ELSE h - 192
             start == IF h < 128 THEN 1 ELSE 2 + len_of_len
         IN  <<[list |-> h >= 192, payload |-> SubSeq(b, start, start + n - 1)]>>
                 \o rlp_items(SubSeq(b, start + n, Len(b)))

\* TxEip1559 { chain_id, nonce, .., input: Bytes::new(), access_list: default }
TxEip1559(to, amount_wei, chain_id, nonce, max_fee_per_gas, max_priority_fee_per_gas, gas_limit) ==
    [chain_id |-> chain_id, nonce |-> nonce,
     max_priority_fee_per_gas |-> max_priority_fee_per_gas,
     max_fee_per_gas |-> max_fee_per_gas, gas_limit |-> gas_limit,
     to |-> to, value |-> amount_wei, input |-> <<>>, access_list |-> <<>>]

\* the fields of the transaction in the order of EIP-1559
encode_fields(tx) ==
    rlp_uint(tx.chain_id) \o rlp_uint(tx.nonce) \o rlp_uint(tx.max_priority_fee_per_gas)
        \o rlp_uint(tx.max_fee_per_gas) \o rlp_uint(tx.gas_limit) \o rlp_bytes(tx.to)
        \o rlp_uint(tx.value) \o rlp_bytes(tx.input) \o rlp_list(tx.access_list)

\* alloy::rlp::encode(&tx): the list of the unsigned fields, without type byte
rlp_encode(tx) == rlp_list(encode_fields(tx))

\* keccak256, as a collision-free digest of its input
keccak256(bytes) == [keccak256 |-> bytes]

\* the EIP-2718 type of an EIP-1559 transaction
EIP1559_TX_TYPE == 2

\* what the signer signs: keccak256(0x02 || rlp(unsigned fields))
signature_hash(tx) == keccak256(<<EIP1559_TX_TYPE>> \o rlp_encode(tx))

\* PrivateKeySigner::from_str(key).sign_transaction_sync(&mut tx): a signature
\* determined by the key and the signed payload
sign_transaction_sync(signer_key, tx) ==
    LET payload == signature_hash(tx).keccak256
        digest == from_be_bytes(<<Len(payload) % 256, payload[Len(payload)]>>)
    IN  [y_parity |-> digest % 2,
         r |-> 1 + (digest % 250),
         s |-> IF signer_key = "k1" THEN 77 ELSE 78]

\* envelope.encoded_2718(): 0x02 || rlp([fields.., y_parity, r, s])
encoded_2718(tx, signature) ==
    <<EIP1559_TX_TYPE>>
        \o rlp_list(encode_fields(tx) \o rlp_uint(signature.y_parity)
                       \o rlp_uint(signature.r) \o rlp_uint(signature.s))

\* TxEnvelope::decode_2718 of a type-2 envelope: the fields and the signature
decode_2718(bytes) ==
    LET f == rlp_items(rlp_items(Tail(bytes))[1].payload) IN
    [ty |-> bytes[1],
     tx |-> [chain_id |-> from_be_bytes(f[1].payload),
             nonce |-> from_be_bytes(f[2].payload),
             max_priority_fee_per_gas |-> from_be_bytes(f[3].payload),
             max_fee_per_gas |-> from_be_bytes(f[4].payload),
             gas_limit |-> from_be_bytes(f[5].payload),
             to |-> f[6].payload,
             value |-> from_be_bytes(f[7].payload),
             input |-> f[8].payload,
             access_list |-> f[9].payload],
     signature |-> [y_parity |-> from_be_bytes(f[10].payload),
                    r |-> from_be_bytes(f[11].payload),
                    s |-> from_be_bytes(f[12].payload)]]

\* forge_flat_transfer_hex: Err(Internal) for a key that is no private key,
\* else the 0x-prefixed hex of the signed envelope; tx_hash is the hash it
\* computes and stores in the Signed (line 74)
forge_flat_transfer_hex_bytes(to, amount_wei, chain_id, nonce, max_fee_per_gas, max_priority_fee_per_gas, gas_limit, signer_key) ==
    LET tx == TxEip1559(to, amount_wei, chain_id, nonce, max_fee_per_gas,
                        max_priority_fee_per_gas, gas_limit)
        signature == sign_transaction_sync(signer_key, tx)
        tx_hash == keccak256(rlp_encode(tx))
        encoded == encoded_2718(tx, signature)
    IN  IF signer_key \notin ValidSignerKeys
        THEN [error |-> <<"Internal">>, raw_hex |-> <<>>, tx_hash |-> <<>>]
        ELSE [error |-> <<>>,
              raw_hex |-> <<<<"0", "x">> \o hex_encode(encoded)>>,
              tx_hash |-> <<tx_hash>>]

ForgerRecipients == {<<161>>, <<5>>}
ForgerAmounts == {0, 1, 150000, 200000}
ForgerChainIds == {1, 5}
ForgerNonces == {0, 7, 128}
ForgerMaxFees == {0, 16, 30}
ForgerPriorityFees == {0, 1}
ForgerGasLimits == {GAS_LIMIT}
ForgerKeys == {"k1", "bogus"}

\* PaymentTransactionForger::new(), and the arguments of the call to come
InitForger ==
    /\ config = MakeConfig(<<BuilderA(TRUE)>>, GenerousPayment)
    /\ env = [signer_key |-> <<"k1">>, rpc_url |-> <<>>]
    /\ chain = [base_fee_per_gas |-> <<>>, nonce |-> 7, balance |-> 1000000000]
    /\ today = 0
    /\ killswitch = FALSE
    /\ daily_spending = get_or_create_daily_spending(0)
    /\ policy = DefaultPolicy
    /\ gate = NoGateCall
    /\ call \in {[op |-> "pending", to |-> to, amount_wei |-> amount_wei,
                  chain_id |-> chain_id, nonce |-> nonce,
                  max_fee_per_gas |-> max_fee_per_gas,
                  max_priority_fee_per_gas |-> max_priority_fee_per_gas,
                  gas_limit |-> gas_limit, signer_key |-> signer_key] :
                     to \in ForgerRecipients, amount_wei \in ForgerAmounts,
                     chain_id \in ForgerChainIds, nonce \in ForgerNonces,
                     max_fee_per_gas \in ForgerMaxFees,
                     max_priority_fee_per_gas \in ForgerPriorityFees,
                     gas_limit \in ForgerGasLimits, signer_key \in ForgerKeys}
    /\ task = [t \in Tasks |-> IdleTask]
    /\ response = [t \in Tasks |-> NoResponse]
    /\ sent = [t \in Tasks |-> <<>>]
    /\ effects = [t \in Tasks |-> NoEffects]

\* forger.forge_flat_transfer_hex(..).await
ForgeFlatTransferHex ==
    /\ call.op = "pending"
    /\ call' = [call EXCEPT !.op = "forge_flat_transfer_hex"] @@
                [result |-> forge_flat_transfer_hex_bytes(
                                call.to, call.amount_wei, call.chain_id, call.nonce,
                                call.max_fee_per_gas, call.max_priority_fee_per_gas,
                                call.gas_limit, call.signer_key)]
    /\ UNCHANGED <<config, env, chain, today, killswitch, daily_spending, policy, gate,
                   task, response, sent, effects>>

NextForger == ForgeFlatTransferHex

SpecForger == InitForger /\ [][NextForger]_vars

-----------------------------------------------------------------------------
(* Properties of submit_bundle *)

Dispatched(t) == sent[t] # <<>>

\* the payment of a dispatched request: the value of the tx2 it posted
DispatchedAmount(t) == IF Dispatched(t) THEN sent[t][1].txs[2].value ELSE 0

RECURSIVE DispatchedTotal(_)
DispatchedTotal(n) ==
    IF n = 0 THEN 0 ELSE DispatchedTotal(n - 1) + DispatchedAmount(n)

CounterUntouched ==
    daily_spending.total_amount_wei = 0 /\ daily_spending.bundle_count = 0

\* C1: a request that starts while the killswitch is set is answered 503, and for
\* that request there is no chain RPC read, no forged payment, no commit to the
\* daily counter and no relay dispatch.
C1_KillswitchRejects ==
    \A t \in Tasks :
        effects[t].killswitch_at_start = <<TRUE>> =>
            /\ response[t].status = 503
            /\ effects[t].rpc_reads = 0
            /\ effects[t].forged = 0
            /\ CounterUntouched
            /\ sent[t] = <<>>

C1_Witness ==
    \E t \in Tasks :
        /\ effects[t].killswitch_at_start = <<TRUE>>
        /\ response[t].status = 503

\* C2: a request that fails before the relay fan-out ends with an HTTP error, the
\* daily counter unchanged and nothing sent to any relay, also when the failure
\* is a forging or address failure for a later relay after earlier ones forged.
C2_FailureLeavesNoTrace ==
    \A t \in Tasks :
        /\ response[t].status \notin {0, 200} =>
               /\ response[t].status \in {400, UNPROCESSABLE_ENTITY, 500, 503}
               /\ CounterUntouched
               /\ sent[t] = <<>>
        /\ (task[t].pc = "done" /\ sent[t] = <<>>) => response[t].status >= 400

C2_Witness ==
    \E t \in Tasks :
        /\ response[t].error \in {"ForgeFailed", "InvalidPaymentAddress"}
        /\ effects[t].forged >= 1
        /\ sent[t] = <<>>

\* C3: every dispatched request pays at most per_bundle_cap, and the payments of
\* the dispatched requests sum to at most daily_cap.
C3_CapsRespected ==
    LoaderAccepts(config) =>
        /\ \A t \in Tasks :
               Dispatched(t) => DispatchedAmount(t) <= config.limits.per_bundle_cap_wei
        /\ DispatchedTotal(MaxRequests) <= config.limits.daily_cap_wei

\* C4: the policy gate has been asked before a request forges, and the request's
\* amount is committed to the daily counter before anything is dispatched.
C4_GateBeforeForging ==
    LoaderAccepts(config) =>
        \A t \in Tasks :
            /\ effects[t].forged > 0 => gate.op # "none"
            /\ Dispatched(t) => daily_spending.bundle_count >= 1

\* C5: two requests in flight at once whose amounts together exceed the daily
\* allowance are never both admitted to dispatch.
C5_ConcurrentAdmissions ==
    LoaderAccepts(config) =>
        \A t1, t2 \in Tasks :
            (/\ t1 # t2
             /\ task[t1].pc \in {"submit", "await_relay"}
             /\ task[t2].pc \in {"submit", "await_relay"}
             /\ Dispatched(t1) /\ Dispatched(t2))
            => task[t1].flat_amount_wei + task[t2].flat_amount_wei
                   <= config.limits.daily_cap_wei

\* C6: the daily counter holds the sum of the admitted requests' amounts and
\* their number, each admitted request counted once.
C6_CounterConservation ==
    LoaderAccepts(config) =>
        /\ daily_spending.total_amount_wei = DispatchedTotal(MaxRequests)
        /\ daily_spending.bundle_count = Cardinality({t \in Tasks : Dispatched(t)})

\* C7: check_payment_allowed denies exactly when amount > per_bundle_cap, or
\* daily.total + amount > daily_cap, or the emergency stop is enabled and
\* amount > emergency_threshold, and it leaves the daily record as it was.
C7_DeniesExactlyWhen ==
    gate.op = "check" =>
        /\ gate.allowed[1] =
               ~(\/ gate.amount_wei > policy.per_bundle_cap_wei
                 \/ gate.daily_before[1].total_amount_wei + gate.amount_wei
                        > policy.daily_cap_wei
                 \/ /\ policy.emergency_stop_enabled
                    /\ gate.amount_wei > policy.emergency_stop_threshold_wei)
        /\ daily_spending = gate.daily_before[1]

\* C8: a request gets past the balance check only with
\* signer_balance >= 21000 * max_fee_per_gas + payment_amount; otherwise it is
\* answered 400 with balanceWei and requiredWei, requiredWei > balanceWei, and
\* nothing is forged, committed or dispatched.
C8_BalanceCheck ==
    \A t \in Tasks :
        /\ (effects[t].balance # <<>> /\ response[t].error # "InsufficientBalance") =>
               effects[t].balance[1] >=
                   21000 * effects[t].max_fee[1] + effects[t].amount[1]
        /\ (effects[t].forged > 0 \/ Dispatched(t)) =>
               /\ effects[t].balance # <<>>
               /\ response[t].error # "InsufficientBalance"
        /\ response[t].error = "InsufficientBalance" =>
               /\ response[t].status = 400
               /\ response[t].balanceWei = effects[t].balance
               /\ response[t].requiredWei =
                      <<21000 * effects[t].max_fee[1] + effects[t].amount[1]>>
               /\ response[t].requiredWei[1] > response[t].balanceWei[1]
               /\ effects[t].forged = 0
               /\ CounterUntouched
               /\ sent[t] = <<>>

C8_Witness ==
    \E t \in Tasks :
        /\ response[t].error = "InsufficientBalance"
        /\ response[t].requiredWei[1] = response[t].balanceWei[1] + 1

\* C9: the bundle posted to a relay's URL carries a tx2 whose recipient is that
\* relay's payment address, whose value is the request's payment, with empty
\* data, gas limit 21000 and the signer nonce read for the request; the tx2 of
\* one request differ only in recipient.
C9_PaymentTransaction ==
    \A t \in Tasks :
        \A k \in 1..Len(sent[t]) :
            LET m == sent[t][k]
                tx2 == m.txs[2]
            IN  /\ \E j \in 1..Len(config.builders) :
                       /\ config.builders[j].enabled
                       /\ config.builders[j].relay_url = m.relay_url
                /\ \A j \in 1..Len(config.builders) :
                       (config.builders[j].relay_url = m.relay_url)
                           <=> (address_from_str(config.builders[j].payment_address)
                                    = <<tx2.to>>)
                /\ tx2.value = effects[t].amount[1]
                /\ tx2.input = <<>>
                /\ tx2.gas_limit = 21000
                /\ tx2.nonce = effects[t].nonce[1]
                /\ \A k2 \in 1..Len(sent[t]) :
                       [tx2 EXCEPT !.to = sent[t][k2].txs[2].to] = sent[t][k2].txs[2]

C9_Witness ==
    \E t \in Tasks :
        /\ Len(sent[t]) = 2
        /\ sent[t][1].txs[2].to # sent[t][2].txs[2].to

\* C10: a dispatched bundle is the ordered pair [tx1, tx2]: the user's tx1 first,
\* as 0x-prefixed hex of exactly the submitted bytes, the forged payment second,
\* with the request's target_block if any; tx1 is the same for every relay.
C10_BundleShape ==
    \A t \in Tasks :
        \A k \in 1..Len(sent[t]) :
            LET m == sent[t][k]
                request == effects[t].request[1]
            IN  /\ Len(m.txs) = 2
                /\ HasPrefix(m.txs[1])
                /\ IsHexText(m.txs[1])
                /\ hex_decode(m.txs[1]) = hex_decode(request.tx1)
                /\ m.txs[2].ty = 2
                /\ m.txs[2].value = effects[t].amount[1]
                /\ m.target_block = request.target_block
                /\ m.txs[1] = sent[t][1].txs[1]

C10_Witness ==
    \E t \in Tasks :
        /\ Len(sent[t]) = 2
        /\ effects[t].request[1].tx1 # sent[t][2].txs[1]
        /\ sent[t][2].target_block = <<5>>

\* C11: a request answered 200 has one submissions entry per enabled relay, in
\* configuration order, and one POST per enabled relay; the relay of a disabled
\* builder is never contacted and never listed.
C11_FanOutComplete ==
    \A t \in Tasks :
        LET enabled == SelectSeq(config.builders, LAMBDA b : b.enabled) IN
        /\ response[t].status = 200 =>
               /\ Len(response[t].submissions) = Len(enabled)
               /\ Len(sent[t]) = Len(enabled)
               /\ \A i \in 1..Len(enabled) :
                      /\ response[t].submissions[i].builder = enabled[i].name
                      /\ sent[t][i].relay_url = enabled[i].relay_url
        /\ \A k \in 1..Len(sent[t]) :
               \A j \in 1..Len(config.builders) :
                   (\/ config.builders[j].relay_url = sent[t][k].relay_url
                    \/ config.builders[j].name = sent[t][k].builder)
                       => config.builders[j].enabled

C11_Witness ==
    \E t \in Tasks :
        /\ response[t].status = 200
        /\ Len(response[t].submissions) = 2
        /\ \E j \in 1..Len(config.builders) : ~config.builders[j].enabled

C13_ConcurrentDispatch ==
    \A t \in Tasks :
        /\ task[t].pc = "await_relay" => Len(sent[t]) = Len(task[t].bundles)
        /\ effects[t].results # <<>> => Len(sent[t]) = Len(EnabledBuilders(config))

\* C14: the payment of a request is computed with the formula of the operator
\* configuration.
C14_ConfiguredFormula ==
    \A t \in Tasks :
        effects[t].amount # <<>> => effects[t].formula = <<config.payment.formula>>

\* C15: under the Flat formula the amount is k2, whatever gas_used, the base
\* fee, the tip and k1 are: calculate_payment returns k2, or max_amount when k2
\* is above it.
C15_FlatIsK2 ==
    (call.op = "calculate_payment" /\ call.params.formula = "Flat") =>
        /\ call.result.error = <<>>
        /\ call.result.amount_wei =
               IF call.params.k2 > call.params.max_amount
               THEN call.params.max_amount ELSE call.params.k2

C17_BlockNumberOmitted ==
    call.op = "submit_bundle" =>
        (call.request.params[1].blockNumber = <<>> <=> call.target_block = <<>>)

\* value of a string of hexadecimal digits
RECURSIVE HexNumber(_)
HexNumber(digits) ==
    IF digits = <<>> THEN 0
    ELSE 16 * HexNumber(SubSeq(digits, 1, Len(digits) - 1)) + HexValue(digits[Len(digits)])

\* C18: for a supplied target_block n the body's blockNumber is "0x" followed by
\* lower-case hexadecimal digits, at least one and without a leading zero
\* unless n = 0, whose value is n.
C18_BlockNumberEncoding ==
    (call.op = "submit_bundle" /\ call.target_block # <<>>) =>
        LET n == call.target_block[1]
            blockNumber == call.request.params[1].blockNumber
        IN  /\ Len(blockNumber) = 1
            /\ Len(blockNumber[1]) >= 3
            /\ SubSeq(blockNumber[1], 1, 2) = <<"0", "x">>
            /\ LET digits == SubSeq(blockNumber[1], 3, Len(blockNumber[1]))
               IN  /\ \A k \in 1..Len(digits) :
                          \E d \in 1..16 : digits[k] = LowerHexDigits[d]
                   /\ (digits[1] = "0") => (n = 0 /\ Len(digits) = 1)
                   /\ HexNumber(digits) = n

C18_Witness ==
    /\ call.op = "submit_bundle"
    /\ call.target_block = <<4095>>
    /\ call.request.params[1].blockNumber = <<(<<"0", "x", "f", "f", "f">>)>>

\* C19: a 2xx reply whose body has an error object with a numeric code and a
\* string message gives BundleRejected with the message as reason, with or
\* without jsonrpc, id and data, and never a success.
C19_ErrorObjectRejected ==
    (/\ call.op = "submit_bundle"
     /\ call.reply.kind = "http"
     /\ is_success(call.reply.status)
     /\ call.reply.body.json
     /\ call.reply.body.error.kind = "object"
     /\ call.reply.body.error.code.kind = "number"
     /\ call.reply.body.error.message.kind = "string") =>
        /\ ~call.result.ok
        /\ call.result.kind = "BundleRejected"
        /\ call.result.relay = call.relay
        /\ call.result.text = call.reply.body.error.message.str

\* C20: a 2xx reply whose body has a string result gives Ok of that string, and
\* one without error member whose result is an object with a string bundleHash
\* gives Ok of the bundleHash, whatever jsonrpc and id are.
C20_SuccessShapes ==
    (/\ call.op = "submit_bundle"
     /\ call.reply.kind = "http"
     /\ is_success(call.reply.status)
     /\ call.reply.body.json) =>
        LET body == call.reply.body IN
        /\ body.result.kind = "string" => call.result = RelayOk(body.result.str)
        /\ (/\ body.result.kind = "object"
            /\ body.result.bundleHash.kind = "string"
            /\ body.error.kind = "absent") =>
                call.result = RelayOk(body.result.bundleHash.str)

C20_Witness ==
    /\ call.op = "submit_bundle"
    /\ call.reply.kind = "http"
    /\ call.reply.status = 200
    /\ call.reply.body.json
    /\ call.reply.body.jsonrpc.kind = "absent"
    /\ call.reply.body.id.kind = "absent"
    /\ call.reply.body.result.kind = "object"
    /\ call.result = RelayOk("0xdef")

\* C21: a request that fails with NoEnabledBuilders, SignerKeyMissing,
\* InvalidSignerKey or InvalidPaymentAddress, or whose tx1 is not hex text, is
\* answered 400.
C21_ClientErrorsAre400 ==
    \A t \in Tasks :
        /\ response[t].error \in {"NoEnabledBuilders", "SignerKeyMissing",
                                  "InvalidSignerKey", "InvalidPaymentAddress"}
               => response[t].status = 400
        /\ (/\ task[t].pc = "done"
            /\ ~IsHexText(effects[t].request[1].tx1)) => response[t].status = 400

\* C22: two answered requests of a run that differ in their payment member only
\* are either both turned away before the handler runs or both handled.
C22_PaymentIgnored ==
    \A t1, t2 \in Tasks :
        (/\ task[t1].pc = "done" /\ task[t2].pc = "done"
         /\ effects[t1].request[1].tx1 = effects[t2].request[1].tx1
         /\ effects[t1].request[1].target_block = effects[t2].request[1].target_block)
            => (response[t1].status = UNPROCESSABLE_ENTITY
                    <=> response[t2].status = UNPROCESSABLE_ENTITY)

\* C23: a configuration that validate accepts has an enabled builder, and each
\* of its builders, enabled or not, has a relay_url beginning with http:// or
\* https://, a payment_address of 0x and the address's hex digits, and a
\* timeout_seconds from 1 to 300.
C23_LoaderRules ==
    (call.op = "validate" /\ call.result = <<>>) =>
        LET builders == call.config.builders IN
        /\ \E k \in 1..Len(builders) : builders[k].enabled
        /\ \A k \in 1..Len(builders) :
               LET b == builders[k] IN
               /\ \/ (Len(b.relay_url) >= 7 /\ SubSeq(b.relay_url, 1, 7) = HTTP_SCHEME)
                  \/ (Len(b.relay_url) >= 8 /\ SubSeq(b.relay_url, 1, 8) = HTTPS_SCHEME)
               /\ Len(b.payment_address) = 2 + 2 * Len(ADDRESS_ZERO)
               /\ b.payment_address[1] = "0" /\ b.payment_address[2] = "x"
               /\ \A j \in 3..Len(b.payment_address) :
                      \E d \in 1..16 : \/ b.payment_address[j] = LowerHexDigits[d]
                                       \/ b.payment_address[j] = UpperHexDigits[d]
               /\ b.timeout_seconds \in 1..300

C23_Witness ==
    /\ call.op = "validate"
    /\ call.result = <<>>
    /\ Len(call.config.builders) = 2
    /\ ~call.config.builders[1].enabled
    /\ call.config.builders[2].timeout_seconds = 300
    /\ starts_with(call.config.builders[1].relay_url, HTTP_SCHEME)

\* C24: a configuration that validate accepts has payment.per_bundle_cap_wei
\* <= payment.daily_cap_wei.
C24_PaymentCapsOrdered ==
    (call.op = "validate" /\ call.result = <<>>) =>
        call.config.payment.per_bundle_cap_wei <= call.config.payment.daily_cap_wei

\* C25: an update made on a later UTC date than the record's rolls the record:
\* afterwards its date is that day, its total the amount and its count 1.
C25_DateRollover ==
    (gate.op = "update" /\ gate.now > gate.daily_before[1].date) =>
        /\ daily_spending.date = gate.now
        /\ daily_spending.total_amount_wei = gate.amount_wei
        /\ daily_spending.bundle_count = 1

\* the base fee the node returned, or 20 gwei when the header has none
NodeBaseFee ==
    IF chain.base_fee_per_gas = <<>> THEN 20 ELSE chain.base_fee_per_gas[1]

\* C26: whatever base fee the node returns, every payment transaction has
\* max_priority_fee_per_gas 0, max_fee_per_gas floor(3 * base_fee / 2) and gas
\* limit 21000, and the balance check prices the transaction with that same
\* max_fee_per_gas; a header without base fee counts as 20 gwei.
C26_FeeFields ==
    LET expected_max_fee == (3 * NodeBaseFee) \div 2 IN
    \A t \in Tasks :
        /\ \A k \in 1..Len(sent[t]) :
               /\ sent[t][k].txs[2].max_priority_fee_per_gas = 0
               /\ sent[t][k].txs[2].max_fee_per_gas = expected_max_fee
               /\ sent[t][k].txs[2].gas_limit = 21000
        /\ (effects[t].balance # <<>> /\ response[t].error # "InsufficientBalance") =>
               effects[t].balance[1] >=
                   21000 * expected_max_fee + effects[t].amount[1]
        /\ response[t].error = "InsufficientBalance" =>
               /\ response[t].requiredWei =
                      <<21000 * expected_max_fee + effects[t].amount[1]>>
               /\ effects[t].balance[1] < response[t].requiredWei[1]

C26_Witness ==
    \E t \in Tasks :
        /\ chain.base_fee_per_gas = <<11>>
        /\ sent[t] # <<>>
        /\ sent[t][1].txs[2].max_fee_per_gas = 16

\* C27: a failed tx1 gas estimation does not fail the request, and the gas
\* given to the calculator is the node's estimate plus 21000 when the
\* estimation succeeds and 21000 + 21000 = 42000 when it fails.
C27_GasEstimateDefault ==
    \A t \in Tasks :
        task[t].pc = "get_nonce" =>
            task[t].estimated_gas_used =
                IF task[t].tx1_gas_estimate = <<>>
                THEN 42000
                ELSE task[t].tx1_gas_estimate[1] + 21000

\* (k1 * 1e18) as u64, restated: negative values give 0, values above the
\* largest u64 give the largest u64
K1Scaled(k1) == IF k1 < 0 THEN 0 ELSE IF k1 > U64_MAX THEN U64_MAX ELSE k1

\* a * b is above U256::MAX
ExceedsU256(a, b) == a # 0 /\ b # 0 /\ a > U256_MAX \div b

\* what calculate_payment returns for an uncapped amount, or for an overflow
PaymentOutcomeIs(result, overflow, uncapped, max_amount) ==
    IF overflow
    THEN result.error = <<"CalculationOverflow">>
    ELSE /\ result.error = <<>>
         /\ result.amount_wei = IF uncapped > max_amount THEN max_amount ELSE uncapped
         /\ result.was_capped = (uncapped > max_amount)

\* C28: under the Gas formula calculate_payment yields
\* floor(k1_scaled * gas_used / 1e18) + k2 (capped at max_amount), k1_scaled
\* being k1 * 1e18 as a u64, and CalculationOverflow instead of a wrapped value
\* when the product or the sum exceeds U256::MAX; a k1 beyond the u64 range with
\* k2 = 0, gas_used = 42000 and max_amount = 1000 gives 1000, was_capped.
C28_GasFormula ==
    (call.op = "calculate_payment" /\ call.params.formula = "Gas") =>
        LET p == call.params
            product == K1Scaled(p.k1) * p.gas_used
            gas_component == product \div K1_SCALE
            product_overflows == ExceedsU256(K1Scaled(p.k1), p.gas_used)
            sum_overflows == gas_component > U256_MAX - p.k2
        IN  /\ PaymentOutcomeIs(call.result,
                                product_overflows \/ sum_overflows,
                                gas_component + p.k2, p.max_amount)
            /\ (p.k1 > U64_MAX /\ p.k2 = 0 /\ p.gas_used = 42000 /\ p.max_amount = 1000) =>
                   /\ call.result.amount_wei = 1000
                   /\ call.result.was_capped

C28_Witness ==
    /\ call.op = "calculate_payment"
    /\ call.params.formula = "Gas"
    /\ call.params.k1 > U64_MAX
    /\ call.params.k2 = 0
    /\ call.params.gas_used = 42000
    /\ call.params.max_amount = 1000
    /\ call.result.amount_wei = 1000
    /\ call.result.was_capped

\* C29: under the Basefee formula calculate_payment yields
\* floor(gas_used * (base_fee_per_gas + max_priority_fee_per_gas) * k1_scaled
\* / 1e18) + k2 (capped at max_amount), and CalculationOverflow instead of a
\* wrapped value when the fee sum, either product or the final sum exceeds
\* U256::MAX.
C29_BasefeeFormula ==
    (call.op = "calculate_payment" /\ call.params.formula = "Basefee") =>
        LET p == call.params
            effective_gas_price == p.base_fee_per_gas + p.max_priority_fee_per_gas
            gas_cost == p.gas_used * effective_gas_price
            product == gas_cost * K1Scaled(p.k1)
            gas_component == product \div K1_SCALE
            fee_sum_overflows == p.base_fee_per_gas > U256_MAX - p.max_priority_fee_per_gas
            gas_cost_overflows ==
                ~fee_sum_overflows /\ ExceedsU256(p.gas_used, effective_gas_price)
            product_overflows ==
                /\ ~fee_sum_overflows
                /\ ~gas_cost_overflows
                /\ ExceedsU256(gas_cost, K1Scaled(p.k1))
            overflows_before_sum ==
                fee_sum_overflows \/ gas_cost_overflows \/ product_overflows
            sum_overflows ==
                ~overflows_before_sum /\ gas_component > U256_MAX - p.k2
        IN  PaymentOutcomeIs(call.result,
                             overflows_before_sum \/ sum_overflows,
                             gas_component + p.k2, p.max_amount)

C29_Witness ==
    /\ call.op = "calculate_payment"
    /\ call.params.formula = "Basefee"
    /\ call.params.gas_used = 21000
    /\ call.params.base_fee_per_gas = 20
    /\ call.params.max_priority_fee_per_gas = 1
    /\ call.params.k1 = 1500
    /\ call.params.k2 = 100000
    /\ call.result.error = <<>>
    /\ call.result.amount_wei = 761500
    /\ ~call.result.was_capped

\* C30: validate_params returns InvalidParameters exactly when gas_used = 0 or
\* k1 < 0 or max_amount = 0, and Ok otherwise.
C30_ValidateParams ==
    call.op = "validate_params" =>
        LET p == call.params
            invalid == p.gas_used = 0 \/ p.k1 < 0 \/ p.max_amount = 0
        IN  /\ invalid => /\ call.result # <<>>
                          /\ call.result[1].kind = "InvalidParameters"
            /\ ~invalid => call.result = <<>>

C30_Witness ==
    /\ call.op = "validate_params"
    /\ call.params.gas_used = 21000
    /\ call.params.k1 = 1000
    /\ call.params.max_amount = 0
    /\ call.result # <<>>

\* the body has one of the shapes a relay answer is read from: a string result,
\* an object result with a string bundleHash, or an error object with code and
\* message
AcceptedShape(body) ==
    /\ body.json
    /\ \/ body.result.kind = "string"
       \/ body.result.kind = "object" /\ body.result.bundleHash.kind = "string"
       \/ /\ body.error.kind = "object"
          /\ body.error.code.kind = "number"
          /\ body.error.message.kind = "string"

\* C31: a non-2xx reply gives HttpError with the relay's status whatever its
\* body is, a 2xx reply whose body is not JSON or has none of the accepted
\* shapes gives InvalidResponse, and neither gives a bundle hash.
C31_HttpErrorAndInvalidResponse ==
    (call.op = "submit_bundle" /\ call.reply.kind = "http") =>
        /\ ~is_success(call.reply.status) =>
               /\ ~call.result.ok
               /\ call.result.kind = "HttpError"
               /\ call.result.relay = call.relay
               /\ call.result.status = call.reply.status
        /\ (is_success(call.reply.status) /\ ~AcceptedShape(call.reply.body)) =>
               /\ ~call.result.ok
               /\ call.result.kind = "InvalidResponse"
               /\ call.result.relay = call.relay

C31_Witness ==
    /\ call.op = "submit_bundle"
    /\ call.reply.kind = "http"
    /\ call.reply.status = 503
    /\ call.reply.body.json
    /\ call.reply.body.result.kind = "string"
    /\ call.result.kind = "HttpError"
    /\ call.result.status = 503

\* C32: a relay that does not answer within relay.timeout_seconds gives
\* ConnectionTimeout for that relay, whether the http client's own timeout or
\* the outer timeout of the same duration fires first.
C32_TimeoutKind ==
    (call.op = "submit_bundle" /\ call.reply.kind \in {"timeout", "client_timeout"}) =>
        /\ ~call.result.ok
        /\ call.result.kind = "ConnectionTimeout"
        /\ call.result.relay = call.relay

\* C33: a request whose fan-out has started is never ended by the service
\* before the outcome of every enabled relay is gathered: it ends with the 200
\* response that lists one submission per enabled relay.
C33_NoOverallDeadline ==
    \A t \in Tasks :
        (sent[t] # <<>> /\ response[t] # NoResponse) =>
            /\ response[t].status = 200
            /\ Len(response[t].submissions) = Len(EnabledBuilders(config))
            /\ Len(sent[t]) = Len(EnabledBuilders(config))

\* the envelope the forger returned decodes to the fields it was called with
C34_DecodesToFields ==
    LET decoded == decode_2718(hex_decode(call.result.raw_hex[1])) IN
    /\ HasPrefix(call.result.raw_hex[1])
    /\ decoded.ty = 2
    /\ decoded.tx.to = call.to
    /\ decoded.tx.value = call.amount_wei
    /\ decoded.tx.chain_id = call.chain_id
    /\ decoded.tx.nonce = call.nonce
    /\ decoded.tx.max_fee_per_gas = call.max_fee_per_gas
    /\ decoded.tx.max_priority_fee_per_gas = call.max_priority_fee_per_gas
    /\ decoded.tx.gas_limit = call.gas_limit
    /\ decoded.tx.input = <<>>
    /\ decoded.tx.access_list = <<>>

\* C34: for every recipient, value, chain id, nonce, fees, gas limit and signer
\* key the forger gives raw_hex and tx_hash; raw_hex decodes as a type-2
\* envelope to the same fields with empty input and access list, and tx_hash is
\* keccak256 of exactly the bytes of raw_hex.
C34_ForgeRoundTrip ==
    (call.op = "forge_flat_transfer_hex" /\ call.result.error = <<>>) =>
        /\ C34_DecodesToFields
        /\ call.result.tx_hash = <<keccak256(hex_decode(call.result.raw_hex[1]))>>

\* C35: whatever the path of a request, signing failures and invalid keys
\* included, no log line and no error body carries the signer private key.
C35_NoKeyLeak ==
    \A t \in Tasks :
        /\ \A d \in effects[t].disclosed :
               env.signer_key # <<>> => d.value # env.signer_key[1]
        /\ env.signer_key # <<>> => response[t].error # env.signer_key[1]

C35_Witness ==
    \E t \in Tasks :
        /\ response[t].error = "InsufficientBalance"
        /\ \E d \in effects[t].disclosed : d.sink = "log" /\ d.value = "0xf1"

\* C36: the killswitch is read once, when the request starts: a request is
\* refused exactly when the flag was set at its start, and a request that
\* passed the gate still posts its bundles when the flag is set afterwards, so
\* a dispatch can happen while the killswitch is active.
C36_KillswitchReadOnce ==
    \A t \in Tasks :
        /\ response[t].error = "KillswitchActive" <=>
               effects[t].killswitch_at_start = <<TRUE>>
        /\ (killswitch /\ task[t].pc = "submit") =>
               ENABLED (SubmitToRelay(t) /\ Len(sent'[t]) = Len(sent[t]) + 1)

C36_Witness ==
    \E t \in Tasks :
        /\ killswitch
        /\ effects[t].killswitch_at_start = <<FALSE>>
        /\ task[t].pc = "submit"
        /\ task[t].i = 2
        /\ Len(sent[t]) = 1

\* C37: toggle_killswitch sets the flag whatever the flag was; it clears it
\* only for a body whose activate member is the boolean false and sets it for
\* every other body, a missing or non-boolean member included, so repeating a
\* toggle changes nothing.
C37_ToggleKillswitch ==
    (call.op = "toggle_killswitch" /\ call.ran) =>
        LET deactivate == /\ call.body.object
                          /\ call.body.activate.kind = "bool"
                          /\ call.body.activate.n = 0
        IN  /\ killswitch = ~deactivate
            /\ call.status = 200
            /\ call.reported = IF deactivate THEN "deactivated" ELSE "activated"

C37_Witness ==
    /\ call.op = "toggle_killswitch"
    /\ call.ran
    /\ call.before
    /\ call.body.activate = JsonBool(FALSE)
    /\ ~killswitch

\* C38: every configuration that ConfigLoader::validate accepts, Config::default()
\* among them, gets a ConfigValidator::validate report without errors.
C38_ValidatorsAgree ==
    (call.op = "validate_both" /\ call.result = <<>>) => call.errors = <<>>

\* the updates without response time for relay_name since the last one with a
\* response time, counted back from the latest update
RECURSIVE MissesSinceResponse(_, _)
MissesSinceResponse(updates, relay_name) ==
    IF updates = <<>> THEN 0
    ELSE LET last == updates[Len(updates)]
             earlier == SubSeq(updates, 1, Len(updates) - 1)
         IN  IF last.relay_name # relay_name
             THEN MissesSinceResponse(earlier, relay_name)
             ELSE IF last.response_time # <<>> THEN 0
             ELSE 1 + MissesSinceResponse(earlier, relay_name)

\* C40: after update_health(name, health, response_time) the record of relay name
\* is Healthy with no consecutive failures when a response time was given and
\* Unhealthy with one more consecutive failure when not, whatever the health
\* argument; every other record, and every record when the name is unknown, is
\* as before; consecutive_failures is the number of updates without response
\* time since the last one with a response time.
C40_HealthFromResponseTime ==
    call.op = "update_health" =>
        LET update == call.updates[Len(call.updates)]
            k == find_relay(call.before, update.relay_name)
        IN  /\ \A j \in 1..Len(call.relays) : j # k => call.relays[j] = call.before[j]
            /\ Len(call.relays) = Len(call.before)
            /\ (k # 0 /\ update.response_time # <<>>) =>
                   /\ call.relays[k].status = "Healthy"
                   /\ call.relays[k].consecutive_failures = 0
            /\ (k # 0 /\ update.response_time = <<>>) =>
                   /\ call.relays[k].status = "Unhealthy"
                   /\ call.relays[k].consecutive_failures =
                          call.before[k].consecutive_failures + 1
            /\ \A relay_name \in UpdateNames :
                   LET j == find_relay(call.relays, relay_name)
                   IN  j # 0 => call.relays[j].consecutive_failures =
                                    MissesSinceResponse(call.updates, relay_name)

\* two updates in a row that call the relay Healthy but carry no response time
C40_Witness ==
    /\ call.op = "update_health"
    /\ call.updates[Len(call.updates)] =
           [relay_name |-> "bB", health |-> "Healthy", response_time |-> <<>>]
    /\ call.relays[2].status = "Unhealthy"
    /\ call.relays[2].consecutive_failures = 2
    /\ call.relays[1].status = "Healthy"

\* the formula of the parameters overflows U256, restated from the formulas
FormulaOverflows(p) ==
    LET fee_sum_overflows == p.base_fee_per_gas > U256_MAX - p.max_priority_fee_per_gas
        effective_gas_price == p.base_fee_per_gas + p.max_priority_fee_per_gas
        gas_cost_overflows == ExceedsU256(p.gas_used, effective_gas_price)
        gas_cost == p.gas_used * effective_gas_price
        cost_product_overflows == ExceedsU256(gas_cost, K1Scaled(p.k1))
    IN  CASE p.formula = "Flat" -> FALSE
          [] p.formula = "Gas" ->
                 \/ ExceedsU256(K1Scaled(p.k1), p.gas_used)
                 \/ (K1Scaled(p.k1) * p.gas_used) \div K1_SCALE > U256_MAX - p.k2
          [] p.formula = "Basefee" ->
                 \/ fee_sum_overflows
                 \/ gas_cost_overflows
                 \/ cost_product_overflows
                 \/ (gas_cost * K1Scaled(p.k1)) \div K1_SCALE > U256_MAX - p.k2

\* the amount of the formula before the cap, when nothing overflows
FormulaAmount(p) ==
    CASE p.formula = "Flat" -> FLAT_AMOUNT
      [] p.formula = "Gas" -> (K1Scaled(p.k1) * p.gas_used) \div K1_SCALE + p.k2
      [] p.formula = "Basefee" ->
             (p.gas_used * (p.base_fee_per_gas + p.max_priority_fee_per_gas)
                  * K1Scaled(p.k1)) \div K1_SCALE + p.k2

\* validate_params would reject the parameters
RejectedParams(p) == p.gas_used = 0 \/ p.k1 < 0 \/ p.max_amount = 0

\* what C39 says of submit_bundle: its parameters are not validated, the payment
\* is computed under Flat and the handler goes on with the capped amount
SubmitBundleGoesOn ==
    call.op = "submit_bundle" =>
        /\ call.payment_params.formula = "Flat"
        /\ call.payment_params.gas_used = call.params.gas_used
        /\ call.payment_params.k1 = call.params.k1
        /\ call.payment_params.max_amount = call.params.max_amount
        /\ call.result.error = <<>>
        /\ call.returned = <<>>
        /\ call.flat_amount_wei =
               <<IF FLAT_AMOUNT > call.params.max_amount
                 THEN call.params.max_amount ELSE FLAT_AMOUNT>>
        /\ call.params.max_amount = 0 =>
               call.flat_amount_wei = <<0>> /\ call.result.was_capped

\* C39 as stated: calculate_payment validates nothing and submit_bundle never
\* calls validate_params; for parameters validate_params rejects (gas_used = 0,
\* k1 < 0 or max_amount = 0) calculate_payment returns Ok, never
\* InvalidParameters; with max_amount = 0 and a positive formula amount it
\* returns amount_wei 0, was_capped, and the pipeline goes on with that amount.
C39_RejectedParamsAreOk ==
    /\ (call.op = "calculate_payment" /\ RejectedParams(call.params)) =>
           /\ call.result.error = <<>>
           /\ (call.params.max_amount = 0 /\ FormulaAmount(call.params) > 0) =>
                  call.result.amount_wei = 0 /\ call.result.was_capped
    /\ SubmitBundleGoesOn

\* C39, amended: for parameters validate_params rejects calculate_payment never
\* returns InvalidParameters; it returns CalculationOverflow when the formula
\* overflows and Ok otherwise, and with max_amount = 0 and a positive formula
\* amount the Ok result has amount_wei 0, was_capped; submit_bundle does not
\* validate its parameters and goes on with the capped Flat amount.
C39_NoValidation ==
    /\ (call.op = "calculate_payment" /\ RejectedParams(call.params)) =>
           /\ call.result.error # <<"InvalidParameters">>
           /\ FormulaOverflows(call.params) =>
                  call.result.error = <<"CalculationOverflow">>
           /\ ~FormulaOverflows(call.params) =>
                  /\ call.result.error = <<>>
                  /\ (call.params.max_amount = 0 /\ FormulaAmount(call.params) > 0) =>
                         call.result.amount_wei = 0 /\ call.result.was_capped
    /\ SubmitBundleGoesOn

\* a rejected parameter set with max_amount 0 and a positive amount is capped to
\* 0 by calculate_payment
C39_Witness ==
    /\ call.op = "calculate_payment"
    /\ call.params.formula = "Gas"
    /\ call.params.gas_used = 21000
    /\ call.params.k1 = 1000
    /\ call.params.k2 = 100000
    /\ call.params.max_amount = 0
    /\ call.result.error = <<>>
    /\ call.result.amount_wei = 0
    /\ call.result.was_capped

====
